---- MODULE Spec2Model ----
(***************************************************************************)
(* valast: conversion of a Go value (seen through reflect) into the go/ast *)
(* expression of its literal.  The model follows src/valast.go, lines 423  *)
(* to 1281 (the revision whose AST returns (Result, error)).               *)
(*                                                                         *)
(* Identifiers and literal texts are sequences of strings, the first of    *)
(* one character, so that ast.IsExported, fmt.Sprint and strconv.Quote are *)
(* computed on the characters.  Import paths are plain strings: the code   *)
(* only compares them.                                                     *)
(***************************************************************************)
EXTENDS Integers, Sequences, FiniteSets, TLC

VARIABLES pc, input, options, ret, out, prev, mem, calls

vars == <<pc, input, options, ret, out, prev, mem, calls>>

(***************************************************************************)
(* Bounds of the model.                                                    *)
(***************************************************************************)
\* integers of every integer kind range over 0..MaxInt
MaxInt == 1
\* depth of nested AST calls the goroutine stack holds before the runtime
\* ends the process with "stack overflow"
MaxStack == 7

(***************************************************************************)
(* Characters and names.                                                   *)
(***************************************************************************)
\* go/ast.IsExported: the name begins with an upper-case letter
IsExported(name) ==
    LET Upper == {"A", "B", "C", "D", "E", "F", "G", "H", "I", "J", "K", "L", "M",
                  "N", "O", "P", "Q", "R", "S", "T", "U", "V", "W", "X", "Y", "Z"}
    IN  Len(name) > 0 /\ name[1] \in Upper

NoName == << >>

KindName(kind) ==
    CASE kind = "bool"       -> <<"b","o","o","l">>
      [] kind = "int"        -> <<"i","n","t">>
      [] kind = "int32"      -> <<"i","n","t","3","2">>
      [] kind = "uint"       -> <<"u","i","n","t">>
      [] kind = "uintptr"    -> <<"u","i","n","t","p","t","r">>
      [] kind = "float64"    -> <<"f","l","o","a","t","6","4">>
      [] kind = "complex64"  -> <<"c","o","m","p","l","e","x","6","4">>
      [] kind = "string"     -> <<"s","t","r","i","n","g">>
      [] OTHER               -> NoName

IntKinds == {"int", "int32", "uint", "uintptr"}
NumKinds == IntKinds \cup {"float64", "complex64"}

(***************************************************************************)
(* Packages: import path and the name written in the package's source.     *)
(***************************************************************************)
PathValast == "github.com/hexops/valast"
PathTest   == "github.com/hexops/valast/internal/test"
PathOther  == "github.com/other/other"
PathClash  == "github.com/other/test"
PathBroken == "example.com/broken"

NameValast == <<"v","a","l","a","s","t">>
NameTest   == <<"t","e","s","t">>
NameOther  == <<"o","t","h","e","r">>
NameUnsafe == <<"u","n","s","a","f","e">>

\* the name the package at an import path declares (reflect prints it in
\* Type.String, and the package-name resolvers return it)
DeclaredName(path) ==
    CASE path = PathValast -> NameValast
      [] path = PathTest   -> NameTest
      [] path = PathOther  -> NameOther
      [] path = PathClash  -> NameTest
      [] OTHER             -> <<"b","r","o","k","e","n">>

(***************************************************************************)
(* reflect.Type: kind, Name(), PkgPath() and the parts of the kind.        *)
(***************************************************************************)
Builtin(kind) == [kind |-> kind, name |-> KindName(kind), pkg |-> ""]

\* a defined type: the underlying type with a name and a package path
Named(t, name, pkg) == [t EXCEPT !.name = name, !.pkg = pkg]

PtrTo(e)       == [kind |-> "ptr", name |-> NoName, pkg |-> "", elem |-> e]
SliceOf(e)     == [kind |-> "slice", name |-> NoName, pkg |-> "", elem |-> e]
ArrayOf(n, e)  == [kind |-> "array", name |-> NoName, pkg |-> "", len |-> n, elem |-> e]
MapOf(k, e)    == [kind |-> "map", name |-> NoName, pkg |-> "", key |-> k, elem |-> e]
ChanOf(e)      == [kind |-> "chan", name |-> NoName, pkg |-> "", elem |-> e]
FuncOf(i, o)   == [kind |-> "func", name |-> NoName, pkg |-> "", ins |-> i, outs |-> o]
StructOf(fs)   == [kind |-> "struct", name |-> NoName, pkg |-> "", fields |-> fs]
InterfaceOf(m) == [kind |-> "interface", name |-> NoName, pkg |-> "", methods |-> m]
Fld(name, t)   == [name |-> name, type |-> t]

\* unsafe.Pointer: Name() is "Pointer" and PkgPath() is ""
UnsafePointerType == [kind |-> "unsafeptr", name |-> <<"P","o","i","n","t","e","r">>, pkg |-> ""]
InvalidType == [kind |-> "invalid", name |-> NoName, pkg |-> ""]

\* reflect.Type.String of a defined type: package name, dot, type name
TypeString(t) == DeclaredName(t.pkg) \o <<".">> \o t.name

(***************************************************************************)
(* reflect.Value: the type and the content of the kind.                    *)
(***************************************************************************)
\* the zero reflect.Value, reflect.ValueOf(nil)
Invalid == [t |-> InvalidType]

BoolV(t, b)        == [t |-> t, b |-> b]
IntV(t, n)         == [t |-> t, n |-> n]
\* a float64 holding h/2
FloatV(t, h)       == [t |-> t, h |-> h]
ComplexV(t, re, im) == [t |-> t, re |-> re, im |-> im]
StringV(t, s)      == [t |-> t, s |-> s]
ArrayV(t, elts)    == [t |-> t, isnil |-> FALSE, elts |-> elts]
SliceV(t, elts)    == [t |-> t, isnil |-> FALSE, elts |-> elts]
NilSlice(t)        == [t |-> t, isnil |-> TRUE, elts |-> << >>]
\* pairs: the entries in the order MapKeys returns their keys
MapV(t, pairs)     == [t |-> t, isnil |-> FALSE, pairs |-> pairs]
NilMap(t)          == [t |-> t, isnil |-> TRUE, pairs |-> << >>]
KV(k, x)           == [key |-> k, val |-> x]
\* a pointer at address addr to elem; elem is a value, or a reference into Heap
PtrV(t, addr, elem) == [t |-> t, isnil |-> FALSE, addr |-> addr, elem |-> elem]
NilPtr(t)          == [t |-> t, isnil |-> TRUE, addr |-> 0, elem |-> Invalid]
\* an interface-typed slot (struct field, element, map key or value) holding held
IfaceV(t, held)    == [t |-> t, held |-> held]
StructV(t, fields) == [t |-> t, fields |-> fields]
FuncV(t, isnil)    == [t |-> t, isnil |-> isnil]
ChanV(t, isnil)    == [t |-> t, isnil |-> isnil]
UnsafeV(t, addr)   == [t |-> t, addr |-> addr]

\* the same value as reflection gives it for an unexported struct field: the
\* Value carries the read-only flag, and its Interface method panics
ReadOnly(x) == [flagRO |-> TRUE] @@ x

Kind(x) == x.t.kind

RECURSIVE IsZero(_)
\* reflect.Value.IsZero
IsZero(x) ==
    CASE Kind(x) = "bool"                 -> ~x.b
      [] Kind(x) \in IntKinds              -> x.n = 0
      [] Kind(x) = "float64"              -> x.h = 0
      [] Kind(x) = "complex64"            -> x.re = 0 /\ x.im = 0
      [] Kind(x) = "string"               -> x.s = << >>
      [] Kind(x) = "array"                -> (\A i \in 1..Len(x.elts) : IsZero(x.elts[i]))
      [] Kind(x) = "struct"               -> (\A i \in 1..Len(x.fields) : IsZero(x.fields[i]))
      [] Kind(x) = "interface"            -> Kind(x.held) = "invalid"
      [] Kind(x) = "unsafeptr"            -> x.addr = 0
      [] Kind(x) \in {"slice", "map", "ptr", "func", "chan"} -> x.isnil
      [] OTHER                            -> FALSE

(***************************************************************************)
(* Texts of literals.                                                      *)
(***************************************************************************)
RECURSIVE Decimal(_)
\* the decimal digits of a natural number
Decimal(n) == IF n < 10 THEN <<ToString(n)>> ELSE Decimal(n \div 10) \o <<ToString(n % 10)>>

RECURSIVE QuoteChars(_, _)
\* strconv.Quote: the escaped characters of s from position i on
QuoteChars(s, i) ==
    IF i > Len(s) THEN << >>
    ELSE (CASE s[i] = "\n" -> <<"\\", "n">>
            [] s[i] = "\r" -> <<"\\", "r">>
            [] s[i] = "\t" -> <<"\\", "t">>
            [] s[i] = "\"" -> <<"\\", "\"">>
            [] s[i] = "\\" -> <<"\\", "\\">>
            [] OTHER       -> <<s[i]>>) \o QuoteChars(s, i + 1)

Quote(s) == <<"\"">> \o QuoteChars(s, 1) \o <<"\"">>

\* fmt.Sprint of the reflect.Value of a basic kind
Sprint(x) ==
    CASE Kind(x) = "bool"      -> IF x.b THEN <<"t","r","u","e">> ELSE <<"f","a","l","s","e">>
      [] Kind(x) \in IntKinds   -> Decimal(x.n)
      [] Kind(x) = "float64"   -> IF x.h % 2 = 0 THEN Decimal(x.h \div 2)
                                  ELSE Decimal(x.h \div 2) \o <<".", "5">>
      [] Kind(x) = "complex64" -> <<"(">> \o Decimal(x.re) \o <<"+">> \o Decimal(x.im) \o <<"i", ")">>
      [] OTHER                 -> << >>

(***************************************************************************)
(* go/ast expressions.                                                     *)
(***************************************************************************)
\* the nil ast.Expr
NilExpr == [node |-> "nil"]
Ident(name)            == [node |-> "Ident", Name |-> name]
BasicLit(kind, value)  == [node |-> "BasicLit", Kind |-> kind, Value |-> value]
CallExpr(fun, args)    == [node |-> "CallExpr", Fun |-> fun, Args |-> args]
SelectorExpr(x, sel)   == [node |-> "SelectorExpr", X |-> x, Sel |-> sel]
CompositeLit(t, elts)  == [node |-> "CompositeLit", Type |-> t, Elts |-> elts]
KeyValueExpr(k, x)     == [node |-> "KeyValueExpr", Key |-> k, Value |-> x]
UnaryExpr(op, x)       == [node |-> "UnaryExpr", Op |-> op, X |-> x]
ParenExpr(x)           == [node |-> "ParenExpr", X |-> x]
StarExpr(x)            == [node |-> "StarExpr", X |-> x]
ArrayType(len, elt)    == [node |-> "ArrayType", Len |-> len, Elt |-> elt]
MapType(k, x)          == [node |-> "MapType", Key |-> k, Value |-> x]
Field(names, t)        == [node |-> "Field", Names |-> names, Type |-> t]
StructType(fields)     == [node |-> "StructType", Fields |-> fields]
InterfaceType(methods) == [node |-> "InterfaceType", Methods |-> methods]
FuncType(params, results) == [node |-> "FuncType", Params |-> params, Results |-> results]

NilIdent == Ident(<<"n","i","l">>)

(***************************************************************************)
(* Options, errors and Result.                                             *)
(***************************************************************************)
\* a nil *Options
NilOptions == [isnil |-> TRUE]

\* &Options{}
ZeroOptions ==
    [isnil |-> FALSE, Unqualify |-> FALSE, PackagePath |-> "", PackageName |-> NoName,
     ExportedOnly |-> FALSE, PackagePathToName |-> "nil"]

withUnqualify(o) == [o EXCEPT !.Unqualify = TRUE]

NoError == [e |-> "nil"]
ResolverError(path)      == [e |-> "packages.Load", path |-> path]
ErrInvalidType(x)        == [e |-> "ErrInvalidType", Value |-> x]
ErrPointerToInterface(x) == [e |-> "ErrPointerToInterface", Value |-> x]
\* not an error value: the Go runtime's fatal "stack overflow", which ends the
\* process while the calls are still on the stack
StackOverflow            == [e |-> "fatal: stack overflow"]
\* not an error value: the panic of reflect.Value.Interface on a read-only Value
ReflectPanic             ==
    [e |-> "panic: reflect.Value.Interface: cannot return value obtained from unexported field or method"]

\* packages.Load finds the packages of the module and fails for the others
DefaultPackagePathToName(path) ==
    IF path \in {PathValast, PathTest, PathOther, PathClash}
    THEN [name |-> DeclaredName(path), err |-> NoError]
    ELSE [name |-> NoName, err |-> ResolverError(path)]

\* the resolver a caller injects is one that fails for every path
packagePathToName(o, path) ==
    IF o.PackagePathToName # "nil" THEN [name |-> NoName, err |-> ResolverError(path)]
    ELSE DefaultPackagePathToName(path)

Result(ast, omitted, requires) ==
    [AST |-> ast, OmittedUnexported |-> omitted, RequiresUnexported |-> requires]

\* Result{}
EmptyResult == Result(NilExpr, FALSE, FALSE)

\* what a call returns: (Result, error)
Ret(res, err) == [res |-> res, err |-> err]

(***************************************************************************)
(* typeExpr.                                                               *)
(***************************************************************************)
\* a block for the named types that drops the resolver's error: pkgName, _ := ...
namedTypeExprIgnoringError(t, o) ==
    IF t.pkg # "" /\ t.pkg # o.PackagePath
    THEN LET r == packagePathToName(o, t.pkg) IN
         IF r.name # o.PackageName
         THEN Ret(Result(SelectorExpr(Ident(r.name), Ident(t.name)), FALSE, ~IsExported(t.name)),
                  NoError)
         ELSE Ret(Result(Ident(t.name), FALSE, FALSE), NoError)
    ELSE Ret(Result(Ident(t.name), FALSE, FALSE), NoError)

\* the block every kind with a non-empty name runs: pkg.Name, or the bare Name
namedTypeExpr(t, o) ==
    IF t.pkg # "" /\ t.pkg # o.PackagePath
    THEN LET r == packagePathToName(o, t.pkg) IN
         IF r.err # NoError THEN Ret(EmptyResult, r.err)
         ELSE IF r.name # o.PackageName
         THEN Ret(Result(SelectorExpr(Ident(r.name), Ident(t.name)), FALSE, ~IsExported(t.name)),
                  NoError)
         ELSE Ret(Result(Ident(t.name), FALSE, FALSE), NoError)
    ELSE Ret(Result(Ident(t.name), FALSE, FALSE), NoError)

\* the default case: bool, the numeric kinds, string, chan
basicTypeExpr(t, o) ==
    IF t.pkg # "" /\ t.pkg # o.PackagePath
    THEN LET r == packagePathToName(o, t.pkg) IN
         IF r.err # NoError THEN Ret(EmptyResult, r.err)
         ELSE IF r.name # o.PackageName
         THEN Ret(Result(CallExpr(SelectorExpr(Ident(r.name), Ident(t.name)),
                                  <<Ident(TypeString(t))>>),
                         FALSE, ~IsExported(t.name)),
                  NoError)
         ELSE Ret(Result(Ident(t.name), FALSE, FALSE), NoError)
    ELSE Ret(Result(Ident(t.name), FALSE, FALSE), NoError)

RECURSIVE typeExpr(_, _)
RECURSIVE typeExprList(_, _, _, _, _, _)
RECURSIVE structTypeFields(_, _, _, _, _, _)

\* the loops over an interface's methods and a function's parameters and results
\* (named: whether the Field carries the method's name)
typeExprList(fs, o, i, named, asts, ru) ==
    IF i > Len(fs) THEN [err |-> NoError, asts |-> asts, ru |-> ru]
    ELSE LET ft == typeExpr(fs[i].type, o) IN
         IF ft.err # NoError THEN [err |-> ft.err, asts |-> << >>, ru |-> FALSE]
         ELSE typeExprList(fs, o, i + 1, named,
                           Append(asts, Field(IF named THEN <<Ident(fs[i].name)>> ELSE << >>,
                                              ft.res.AST)),
                           ru \/ ft.res.RequiresUnexported)

\* the loop over the fields of an anonymous struct type
structTypeFields(fs, o, i, asts, ru, om) ==
    IF i > Len(fs) THEN Ret(Result(StructType(asts), om, ru), NoError)
    ELSE LET ft == typeExpr(fs[i].type, o) IN
         IF ft.err # NoError THEN Ret(EmptyResult, ft.err)
         ELSE IF ft.res.RequiresUnexported /\ o.ExportedOnly
         THEN Ret(Result(NilExpr, FALSE, TRUE), NoError)
         ELSE structTypeFields(fs, o, i + 1,
                               Append(asts, Field(<<Ident(fs[i].name)>>, ft.res.AST)),
                               ru \/ ft.res.RequiresUnexported,
                               om \/ ft.res.OmittedUnexported)

typeExpr(t, o) ==
    CASE t.kind = "array" ->
           IF t.name # NoName THEN namedTypeExpr(t, o)
           ELSE LET e == typeExpr(t.elem, o) IN
                IF e.err # NoError THEN Ret(EmptyResult, e.err)
                ELSE Ret(Result(ArrayType(BasicLit("INT", Decimal(t.len)), e.res.AST),
                                FALSE, e.res.RequiresUnexported), NoError)
      [] t.kind = "interface" ->
           IF t.name # NoName THEN namedTypeExpr(t, o)
           ELSE LET ms == typeExprList(t.methods, o, 1, TRUE, << >>, FALSE) IN
                IF ms.err # NoError THEN Ret(EmptyResult, ms.err)
                ELSE Ret(Result(InterfaceType(ms.asts), FALSE, ms.ru), NoError)
      [] t.kind = "func" ->
           LET ps == typeExprList(t.ins, o, 1, FALSE, << >>, FALSE) IN
           IF ps.err # NoError THEN Ret(EmptyResult, ps.err)
           ELSE LET rs == typeExprList(t.outs, o, 1, FALSE, << >>, ps.ru) IN
                IF rs.err # NoError THEN Ret(EmptyResult, rs.err)
                ELSE Ret(Result(FuncType(ps.asts, rs.asts), FALSE, rs.ru), NoError)
      [] t.kind = "map" ->
           IF t.name # NoName THEN namedTypeExpr(t, o)
           ELSE LET k == typeExpr(t.key, o) IN
                IF k.err # NoError THEN Ret(EmptyResult, k.err)
                ELSE LET e == typeExpr(t.elem, o) IN
                     IF e.err # NoError THEN Ret(EmptyResult, e.err)
                     ELSE Ret(Result(MapType(k.res.AST, e.res.AST), FALSE,
                                     k.res.RequiresUnexported \/ e.res.RequiresUnexported),
                              NoError)
      [] t.kind = "ptr" ->
           IF t.name # NoName THEN namedTypeExpr(t, o)
           ELSE LET e == typeExpr(t.elem, o) IN
                IF e.err # NoError THEN Ret(EmptyResult, e.err)
                ELSE Ret(Result(StarExpr(e.res.AST), FALSE, e.res.RequiresUnexported), NoError)
      [] t.kind = "slice" ->
           IF t.name # NoName THEN namedTypeExpr(t, o)
           ELSE LET e == typeExpr(t.elem, o) IN
                IF e.err # NoError THEN Ret(EmptyResult, e.err)
                ELSE Ret(Result(ArrayType(NilExpr, e.res.AST), FALSE, e.res.RequiresUnexported),
                         NoError)
      [] t.kind = "struct" ->
           IF t.name # NoName THEN namedTypeExpr(t, o)
           ELSE structTypeFields(t.fields, o, 1, << >>, FALSE, FALSE)
      [] t.kind = "unsafeptr" ->
           LET isPlainUnsafePointer == t = UnsafePointerType IN
           IF ~isPlainUnsafePointer /\ t.name # NoName THEN namedTypeExpr(t, o)
           ELSE Ret(Result(SelectorExpr(Ident(NameUnsafe), Ident(UnsafePointerType.name)),
                           FALSE, FALSE), NoError)
      [] OTHER -> basicTypeExpr(t, o)

(***************************************************************************)
(* Pointers and the heap.  A pointer holds its target, or, where the       *)
(* structure is cyclic, a reference to a heap cell.                        *)
(***************************************************************************)
\* test.Node as a field type names it
NodeRef  == Named(StructOf(<< >>), <<"N","o","d","e">>, PathTest)
\* type Node struct{ Next *Node }, declared in package test
NodeType == Named(StructOf(<<Fld(<<"N","e","x","t">>, PtrTo(NodeRef))>>), <<"N","o","d","e">>, PathTest)

Ref(a) == [t |-> [kind |-> "ref", name |-> NoName, pkg |-> ""], addr |-> a]

NodePtr(a) == PtrV(PtrTo(NodeRef), a, Ref(a))

\* cell 1 is a Node whose Next points to itself; cells 2 and 3 point to each other
Heap(a) ==
    CASE a = 1 -> StructV(NodeType, <<NodePtr(1)>>)
      [] a = 2 -> StructV(NodeType, <<NodePtr(3)>>)
      [] OTHER -> StructV(NodeType, <<NodePtr(2)>>)

\* reflect.Value.Elem of a pointer
Elem(p) == IF p.isnil THEN Invalid
           ELSE IF Kind(p.elem) = "ref" THEN Heap(p.elem.addr) ELSE p.elem

(***************************************************************************)
(* valueLess and sort.Slice.                                               *)
(***************************************************************************)
\* the back quote character (U+0060), which a TLA+ string cannot hold
Backquote == "BQ"

RECURSIVE StringLess(_, _, _)
\* the < of Go on strings: byte-wise, from position i on
StringLess(s, u, i) ==
    LET \* the characters of the strings of the model, in byte order
        Alphabet == <<"\t", "\n", "\r", "\"", "\\", Backquote, "a", "b", "c">>
        Code(c)  == CHOOSE k \in 1..Len(Alphabet) : Alphabet[k] = c
    IN
    IF i > Len(u) THEN FALSE
    ELSE IF i > Len(s) THEN TRUE
    ELSE IF s[i] = u[i] THEN StringLess(s, u, i + 1)
    ELSE Code(s[i]) < Code(u[i])

valueLess(i, j) ==
    CASE Kind(i) = "bool"      -> (IF i.b THEN 1 ELSE 0) < (IF j.b THEN 1 ELSE 0)
      [] Kind(i) \in IntKinds   -> i.n < j.n
      [] Kind(i) = "float64"   -> i.h < j.h
      [] Kind(i) = "ptr"       -> i.addr < j.addr
      [] Kind(i) = "string"    -> StringLess(i.s, j.s, 1)
      [] Kind(i) = "unsafeptr" -> i.addr < j.addr
      [] OTHER                 -> TRUE

RECURSIVE InsertBack(_, _)
\* the inner loop of the insertion sort: for j > 1 && less(j, j-1) { swap(j, j-1) }
InsertBack(s, j) ==
    IF j > 1 /\ valueLess(s[j].key, s[j - 1].key) THEN InsertBack([s EXCEPT ![j] = s[j - 1], ![j - 1] = s[j]], j - 1)
    ELSE s

RECURSIVE InsertionSort(_, _)
\* sort.Slice on fewer than 12 keys is an insertion sort from index i on
InsertionSort(s, i) ==
    IF i > Len(s) THEN s ELSE InsertionSort(InsertBack(s, i), i + 1)

\* the entries of the map in the order MapKeys returned the keys, without the sort
sortedKeysAsReturned(pairs) == pairs

\* the entries of the map in the order of the sorted keys
sortedKeys(pairs) == InsertionSort(pairs, 2)

(***************************************************************************)
(* AST.                                                                    *)
(***************************************************************************)
\* strings longer than this, with a line break and no back quote, are raw
RawStringMinLen == 40

Contains(s, c) == \E i \in 1..Len(s) : s[i] = c

RECURSIVE HexDigits(_)
\* fmt.Sprintf("%x", n)
HexDigits(n) ==
    LET digit(k) == <<"0","1","2","3","4","5","6","7","8","9","a","b","c","d","e","f">>[k + 1] IN
    IF n < 16 THEN <<digit(n)>> ELSE HexDigits(n \div 16) \o <<digit(n % 16)>>

\* a basicLit that writes the conversion whatever Unqualify says
basicLitQualified(vv, kind, builtinType, text, o) ==
    LET te == typeExpr(vv.t, o) IN
    IF te.err # NoError THEN Ret(EmptyResult, te.err)
    ELSE IF o.ExportedOnly /\ te.res.RequiresUnexported
    THEN Ret(Result(NilExpr, FALSE, TRUE), NoError)
    ELSE Ret(Result(CallExpr(te.res.AST, <<Ident(text)>>), FALSE, te.res.RequiresUnexported),
             NoError)

basicLit(vv, kind, builtinType, text, o) ==
    LET te == typeExpr(vv.t, o) IN
    IF te.err # NoError THEN Ret(EmptyResult, te.err)
    ELSE IF o.Unqualify /\ vv.t.name = builtinType /\ vv.t.pkg = ""
    THEN Ret(Result(Ident(text), FALSE, FALSE), NoError)
    ELSE IF o.ExportedOnly /\ te.res.RequiresUnexported
    THEN Ret(Result(NilExpr, FALSE, TRUE), NoError)
    ELSE Ret(Result(CallExpr(te.res.AST, <<Ident(text)>>), FALSE, te.res.RequiresUnexported),
             NoError)

\* case reflect.Bool
boolLit(vv, o) ==
    LET boolType == typeExpr(vv.t, o) IN
    IF boolType.err # NoError THEN Ret(EmptyResult, boolType.err)
    ELSE IF vv.t.name = KindName("bool") /\ vv.t.pkg = ""
    THEN Ret(Result(Ident(Sprint(vv)), FALSE, FALSE), NoError)
    ELSE IF o.ExportedOnly /\ boolType.res.RequiresUnexported
    THEN Ret(Result(NilExpr, FALSE, TRUE), NoError)
    ELSE Ret(Result(CallExpr(boolType.res.AST, <<Ident(Sprint(vv))>>), FALSE,
                    boolType.res.RequiresUnexported), NoError)

\* case reflect.String
stringLit(vv, o) ==
    IF Len(vv.s) > RawStringMinLen /\ Contains(vv.s, "\n") /\ ~Contains(vv.s, Backquote)
    THEN basicLit(vv, "STRING", KindName("string"), <<Backquote>> \o vv.s \o <<Backquote>>,
                  withUnqualify(o))
    ELSE basicLit(vv, "STRING", KindName("string"), Quote(vv.s), withUnqualify(o))

\* case reflect.UnsafePointer
unsafePointerLit(vv, o) ==
    LET unsafePointerType == typeExpr(vv.t, o) IN
    IF unsafePointerType.err # NoError THEN Ret(EmptyResult, unsafePointerType.err)
    ELSE Ret(Result(CallExpr(unsafePointerType.res.AST,
                             <<CallExpr(Ident(KindName("uintptr")),
                                        <<BasicLit("INT", <<"0", "x">> \o HexDigits(vv.addr))>>)>>),
                    unsafePointerType.res.OmittedUnexported,
                    unsafePointerType.res.RequiresUnexported), NoError)

\* a struct loop that encodes every field
skipFieldNever(f) == FALSE

\* whether the struct loop passes over a field without encoding it
skipField(f) == IsZero(f)

\* a pointer case that refuses only the pointers to an interface holding a value
isPointerToHeldInterface(vv) ==
    Kind(Elem(vv)) = "interface" /\ Kind(Elem(vv).held) # "invalid"

\* whether the pointer case refuses the pointer: its target is an interface slot
isPointerToInterface(vv) == Kind(Elem(vv)) = "interface"

RECURSIVE AST(_, _, _)
RECURSIVE elemLoop(_, _, _, _, _, _)
RECURSIVE mapLoop(_, _, _, _, _, _, _)
RECURSIVE structLoop(_, _, _, _, _, _, _)

RECURSIVE mapLoopKeyOnly(_, _, _, _, _, _, _)
\* a map loop that drops a pair for its key only, and emits the pair whatever the
\* value's encoding requires
mapLoopKeyOnly(keys, o, d, i, kvs, ru, om) ==
    IF i > Len(keys) THEN [err |-> NoError, kvs |-> kvs, ru |-> ru, om |-> om]
    ELSE LET k == AST(keys[i].key, withUnqualify(o), d) IN
         IF k.err # NoError THEN [err |-> k.err, kvs |-> << >>, ru |-> FALSE, om |-> FALSE]
         ELSE IF k.res.RequiresUnexported /\ o.ExportedOnly
         THEN mapLoopKeyOnly(keys, o, d, i + 1, kvs, ru, TRUE)
         ELSE LET x == AST(keys[i].val, withUnqualify(o), d) IN
              IF x.err # NoError THEN [err |-> x.err, kvs |-> << >>, ru |-> FALSE, om |-> FALSE]
              ELSE mapLoopKeyOnly(keys, o, d, i + 1,
                                  Append(kvs, KeyValueExpr(k.res.AST, x.res.AST)),
                                  ru \/ k.res.RequiresUnexported \/ x.res.RequiresUnexported,
                                  om \/ k.res.OmittedUnexported \/ x.res.OmittedUnexported)

RECURSIVE elemLoopSameOptions(_, _, _, _, _, _)
\* a loop over the elements that hands the Options of the container on as they are
elemLoopSameOptions(vv, o, d, i, elts, ru) ==
    IF i > Len(vv.elts) THEN [err |-> NoError, elts |-> elts, ru |-> ru]
    ELSE LET elem == AST(vv.elts[i], o, d) IN
         IF elem.err # NoError THEN [err |-> elem.err, elts |-> << >>, ru |-> FALSE]
         ELSE elemLoopSameOptions(vv, o, d, i + 1, Append(elts, elem.res.AST),
                                  ru \/ elem.res.RequiresUnexported)

\* the loop of the array and slice cases over the elements
elemLoop(vv, o, d, i, elts, ru) ==
    IF i > Len(vv.elts) THEN [err |-> NoError, elts |-> elts, ru |-> ru]
    ELSE LET elem == AST(vv.elts[i], withUnqualify(o), d) IN
         IF elem.err # NoError THEN [err |-> elem.err, elts |-> << >>, ru |-> FALSE]
         ELSE elemLoop(vv, o, d, i + 1, Append(elts, elem.res.AST),
                       ru \/ elem.res.RequiresUnexported)

\* the loop of the map case over the sorted keys
mapLoop(keys, o, d, i, kvs, ru, om) ==
    IF i > Len(keys) THEN [err |-> NoError, kvs |-> kvs, ru |-> ru, om |-> om]
    ELSE LET k == AST(keys[i].key, withUnqualify(o), d) IN
         IF k.err # NoError THEN [err |-> k.err, kvs |-> << >>, ru |-> FALSE, om |-> FALSE]
         ELSE IF k.res.RequiresUnexported /\ o.ExportedOnly
         THEN mapLoop(keys, o, d, i + 1, kvs, ru, TRUE)
         ELSE LET x == AST(keys[i].val, withUnqualify(o), d) IN
              IF x.err # NoError THEN [err |-> x.err, kvs |-> << >>, ru |-> FALSE, om |-> FALSE]
              ELSE IF x.res.RequiresUnexported /\ o.ExportedOnly
              THEN mapLoop(keys, o, d, i + 1, kvs, ru \/ k.res.RequiresUnexported,
                           TRUE)
              ELSE mapLoop(keys, o, d, i + 1,
                           Append(kvs, KeyValueExpr(k.res.AST, x.res.AST)),
                           ru \/ k.res.RequiresUnexported \/ x.res.RequiresUnexported,
                           om \/ k.res.OmittedUnexported \/ x.res.OmittedUnexported)

\* the loop of the struct case over the fields
structLoop(vv, o, d, i, kvs, ru, om) ==
    IF i > Len(vv.fields) THEN [err |-> NoError, kvs |-> kvs, ru |-> ru, om |-> om]
    ELSE IF skipField(vv.fields[i]) THEN structLoop(vv, o, d, i + 1, kvs, ru, om)
    ELSE LET value == AST(vv.fields[i], withUnqualify(o), d) IN
         IF value.err # NoError THEN [err |-> value.err, kvs |-> << >>, ru |-> FALSE, om |-> FALSE]
         ELSE IF value.res.RequiresUnexported /\ o.ExportedOnly
         THEN structLoop(vv, o, d, i + 1, kvs, ru, TRUE)
         ELSE structLoop(vv, o, d, i + 1,
                         Append(kvs, KeyValueExpr(Ident(vv.t.fields[i].name), value.res.AST)),
                         ru \/ value.res.RequiresUnexported,
                         om \/ value.res.OmittedUnexported)

\* an array and slice case that leaves out the elements it cannot encode
listLitBestEffort(vv, o, d) ==
    LET listType == typeExpr(vv.t, o) IN
    Ret(Result(CompositeLit(listType.res.AST, << >>), FALSE, listType.res.RequiresUnexported),
        listType.err)

\* case reflect.Array and case reflect.Slice
listLit(vv, o, d) ==
    LET l == elemLoop(vv, o, d, 1, << >>, FALSE) IN
    IF l.err # NoError THEN Ret(EmptyResult, l.err)
    ELSE LET listType == typeExpr(vv.t, o) IN
         IF listType.err # NoError THEN Ret(EmptyResult, listType.err)
         ELSE Ret(Result(CompositeLit(listType.res.AST, l.elts), FALSE,
                         listType.res.RequiresUnexported \/ l.ru), NoError)

\* an interface case that omits the value without saying so: Result{}
interfaceLitSilent(vv, o, d) ==
    IF o.ExportedOnly /\ ~IsExported(vv.t.name)
    THEN Ret(Result(NilExpr, FALSE, FALSE), NoError)
    ELSE IF o.Unqualify THEN AST(vv.held, withUnqualify(o), d)
    ELSE LET x == AST(vv.held, o, d) IN
         IF x.err # NoError THEN Ret(EmptyResult, x.err)
         ELSE LET interfaceType == typeExpr(vv.t, o) IN
              IF interfaceType.err # NoError THEN Ret(EmptyResult, interfaceType.err)
              ELSE Ret(Result(CompositeLit(interfaceType.res.AST, <<x.res.AST>>), FALSE,
                              interfaceType.res.RequiresUnexported \/ x.res.RequiresUnexported),
                       NoError)

\* case reflect.Interface
interfaceLit(vv, o, d) ==
    IF o.ExportedOnly /\ ~IsExported(vv.t.name)
    THEN Ret(Result(NilExpr, FALSE, TRUE), NoError)
    ELSE IF o.Unqualify THEN AST(vv.held, withUnqualify(o), d)
    ELSE LET x == AST(vv.held, o, d) IN
         IF x.err # NoError THEN Ret(EmptyResult, x.err)
         ELSE LET interfaceType == typeExpr(vv.t, o) IN
              IF interfaceType.err # NoError THEN Ret(EmptyResult, interfaceType.err)
              ELSE Ret(Result(CompositeLit(interfaceType.res.AST, <<x.res.AST>>), FALSE,
                              interfaceType.res.RequiresUnexported \/ x.res.RequiresUnexported),
                       NoError)

\* case reflect.Map
mapLit(vv, o, d) ==
    LET l == mapLoop(sortedKeys(vv.pairs), o, d, 1, << >>, FALSE, FALSE) IN
    IF l.err # NoError THEN Ret(EmptyResult, l.err)
    ELSE LET mapType == typeExpr(vv.t, o) IN
         IF mapType.err # NoError THEN Ret(EmptyResult, mapType.err)
         ELSE Ret(Result(CompositeLit(mapType.res.AST, l.kvs), l.om,
                         l.ru \/ mapType.res.RequiresUnexported), NoError)

\* case reflect.Ptr
ptrLit(vv, o, d) ==
    IF isPointerToInterface(vv) THEN Ret(EmptyResult, ErrPointerToInterface(vv))
    ELSE LET ptrType == typeExpr(vv.t, o) IN
         IF ptrType.err # NoError THEN Ret(EmptyResult, ptrType.err)
         ELSE IF vv.isnil
         THEN (IF o.Unqualify THEN Ret(Result(NilIdent, FALSE, FALSE), NoError)
               ELSE Ret(Result(CallExpr(ParenExpr(ptrType.res.AST), <<NilIdent>>), FALSE,
                               ptrType.res.RequiresUnexported), NoError))
         ELSE IF o.ExportedOnly /\ ptrType.res.RequiresUnexported
         THEN Ret(Result(NilExpr, FALSE, TRUE), NoError)
         ELSE LET elem == AST(Elem(vv), o, d) IN
              IF elem.err # NoError THEN Ret(EmptyResult, elem.err)
              ELSE Ret(Result(UnaryExpr("&", elem.res.AST), elem.res.OmittedUnexported,
                              ptrType.res.RequiresUnexported \/ elem.res.RequiresUnexported),
                       NoError)

\* a struct case that returns, with the error of a field, the literal of the fields
\* encoded before it
structLitPartial(vv, o, d) ==
    LET l == structLoop(vv, o, d, 1, << >>, FALSE, FALSE) IN
    IF l.err # NoError
    THEN Ret(Result(CompositeLit(typeExpr(vv.t, o).res.AST, l.kvs), FALSE, FALSE), l.err)
    ELSE LET structType == typeExpr(vv.t, o) IN
         IF structType.err # NoError THEN Ret(EmptyResult, structType.err)
         ELSE IF o.ExportedOnly /\ structType.res.RequiresUnexported
         THEN Ret(Result(NilExpr, FALSE, TRUE), NoError)
         ELSE Ret(Result(CompositeLit(structType.res.AST, l.kvs), l.om,
                         structType.res.RequiresUnexported \/ l.ru), NoError)

\* case reflect.Struct
structLit(vv, o, d) ==
    LET l == structLoop(vv, o, d, 1, << >>, FALSE, FALSE) IN
    IF l.err # NoError THEN Ret(EmptyResult, l.err)
    ELSE LET structType == typeExpr(vv.t, o) IN
         IF structType.err # NoError THEN Ret(EmptyResult, structType.err)
         ELSE IF o.ExportedOnly /\ structType.res.RequiresUnexported
         THEN Ret(Result(NilExpr, FALSE, TRUE), NoError)
         ELSE Ret(Result(CompositeLit(structType.res.AST, l.kvs), l.om,
                         structType.res.RequiresUnexported \/ l.ru), NoError)

\* bypass.UnsafeReflectValue: the same Value without the read-only flag
unexported(v) ==
    IF v = Invalid \/ "flagRO" \notin DOMAIN v THEN v
    ELSE [f \in DOMAIN v \ {"flagRO"} |-> v[f]]

\* the default case of the switch on the kind (func, chan): it builds the error
\* from v.Interface(), v the Value as the caller passed it
invalidKind(v) ==
    IF "flagRO" \in DOMAIN v THEN Ret(EmptyResult, ReflectPanic)
    ELSE Ret(Result(NilExpr, FALSE, FALSE), ErrInvalidType(v))

\* AST(v, opt), called with d - 1 calls of AST on the stack; vv := unexported(v)
AST(v, opt, d) ==
    LET o  == IF opt.isnil THEN ZeroOptions ELSE opt
        vv == unexported(v)
    IN
    IF d > MaxStack THEN Ret(EmptyResult, StackOverflow)
    ELSE IF v = Invalid THEN Ret(Result(NilIdent, FALSE, FALSE), NoError)
    ELSE CASE Kind(vv) = "bool"               -> boolLit(vv, o)
           [] Kind(vv) \in NumKinds            -> basicLit(vv, IF Kind(vv) \in IntKinds THEN "INT" ELSE "FLOAT",
                                                          KindName(Kind(vv)), Sprint(vv), o)
           [] Kind(vv) \in {"array", "slice"}  -> listLit(vv, o, d + 1)
           [] Kind(vv) = "interface"          -> interfaceLit(vv, o, d + 1)
           [] Kind(vv) = "map"                -> mapLit(vv, o, d + 1)
           [] Kind(vv) = "ptr"                -> ptrLit(vv, o, d + 1)
           [] Kind(vv) = "string"             -> stringLit(vv, o)
           [] Kind(vv) = "struct"             -> structLit(vv, o, d + 1)
           [] Kind(vv) = "unsafeptr"          -> unsafePointerLit(vv, o)
           [] OTHER                           -> invalidKind(v)

(***************************************************************************)
(* The calls of the package-name resolver.                                 *)
(***************************************************************************)
RECURSIVE callsUntilReturn(_, _)
\* the resolver calls of the stages of a function body from stage i on, each stage
\* a record of the calls it makes and of whether the function returns after it
callsUntilReturn(stages, i) ==
    IF i > Len(stages) THEN << >>
    ELSE IF stages[i].return THEN stages[i].calls
    ELSE stages[i].calls \o callsUntilReturn(stages, i + 1)

RECURSIVE typeExprCalls(_, _)
\* the package paths typeExpr(t, o) gives to opt.packagePathToName, in order
typeExprCalls(t, o) ==
    LET stage(ft) ==
            [calls |-> typeExprCalls(ft, o),
             return |-> LET r == typeExpr(ft, o) IN
                        \/ r.err # NoError
                        \/ t.kind = "struct" /\ r.res.RequiresUnexported /\ o.ExportedOnly]
        list(fs) == [i \in 1..Len(fs) |-> stage(fs[i].type)]
    IN
    IF t.name # NoName /\ t.kind # "func" /\ t # UnsafePointerType
    THEN (IF t.pkg # "" /\ t.pkg # o.PackagePath THEN <<t.pkg>> ELSE << >>)
    ELSE CASE t.kind \in {"array", "ptr", "slice"} -> typeExprCalls(t.elem, o)
           [] t.kind = "map"       -> callsUntilReturn(<<stage(t.key), stage(t.elem)>>, 1)
           [] t.kind = "struct"    -> callsUntilReturn(list(t.fields), 1)
           [] t.kind = "interface" -> callsUntilReturn(list(t.methods), 1)
           [] t.kind = "func"      -> callsUntilReturn(list(t.ins) \o list(t.outs), 1)
           [] OTHER                -> << >>

RECURSIVE ASTCalls(_, _, _)
\* the package paths AST(v, opt) gives to opt.packagePathToName, in order, through
\* typeExpr and its own recursion
ASTCalls(v, opt, d) ==
    LET o    == IF opt.isnil THEN ZeroOptions ELSE opt
        vv   == unexported(v)
        type == [calls |-> typeExprCalls(vv.t, o), return |-> TRUE]
        \* a nested call AST(x, oo), after which the caller returns when it failed
        nested(x, oo) ==
            [calls |-> ASTCalls(x, oo, d + 1), return |-> AST(x, oo, d + 1).err # NoError]
        \* a map entry: the key, and the value unless the key is dropped
        entry(kv) ==
            LET k == AST(kv.key, withUnqualify(o), d + 1) IN
            IF k.err # NoError \/ (k.res.RequiresUnexported /\ o.ExportedOnly)
            THEN <<nested(kv.key, withUnqualify(o))>>
            ELSE <<nested(kv.key, withUnqualify(o)), nested(kv.val, withUnqualify(o))>>
        RECURSIVE entries(_, _)
        entries(kvs, i) == IF i > Len(kvs) THEN << >> ELSE entry(kvs[i]) \o entries(kvs, i + 1)
        \* the fields the struct loop encodes, from field i on
        RECURSIVE fields(_)
        fields(i) ==
            IF i > Len(vv.fields) THEN << >>
            ELSE (IF skipField(vv.fields[i]) THEN << >>
                  ELSE <<nested(vv.fields[i], withUnqualify(o))>>) \o fields(i + 1)
    IN
    IF d > MaxStack \/ v = Invalid THEN << >>
    ELSE CASE Kind(vv) \in {"bool", "string", "unsafeptr"} \cup NumKinds -> type.calls
           [] Kind(vv) \in {"array", "slice"} ->
                callsUntilReturn([i \in 1..Len(vv.elts) |-> nested(vv.elts[i], withUnqualify(o))]
                                 \o <<type>>, 1)
           [] Kind(vv) = "interface" ->
                IF o.ExportedOnly /\ ~IsExported(vv.t.name) THEN << >>
                ELSE IF o.Unqualify THEN ASTCalls(vv.held, withUnqualify(o), d + 1)
                ELSE callsUntilReturn(<<nested(vv.held, o), type>>, 1)
           [] Kind(vv) = "map" ->
                callsUntilReturn(entries(sortedKeys(vv.pairs), 1) \o <<type>>, 1)
           [] Kind(vv) = "ptr" ->
                IF isPointerToInterface(vv) THEN << >>
                ELSE LET ptrType == typeExpr(vv.t, o) IN
                     IF \/ ptrType.err # NoError \/ vv.isnil
                        \/ o.ExportedOnly /\ ptrType.res.RequiresUnexported
                     THEN type.calls
                     ELSE type.calls \o ASTCalls(Elem(vv), o, d + 1)
           [] Kind(vv) = "struct" ->
                callsUntilReturn(fields(1) \o <<type>>, 1)
           [] OTHER -> << >>

(***************************************************************************)
(* StringWithOptions.                                                      *)
(***************************************************************************)
RECURSIVE HasNilNode(_)
\* whether the tree holds a nil ast.Expr where the printer needs a node (the
\* Len of a slice type is the one field that is nil in a well-formed tree)
HasNilNode(n) ==
    CASE n.node = "nil"          -> TRUE
      [] n.node = "CallExpr"     -> HasNilNode(n.Fun) \/ (\E i \in 1..Len(n.Args) : HasNilNode(n.Args[i]))
      [] n.node = "SelectorExpr" -> HasNilNode(n.X) \/ HasNilNode(n.Sel)
      [] n.node = "CompositeLit" -> HasNilNode(n.Type) \/ (\E i \in 1..Len(n.Elts) : HasNilNode(n.Elts[i]))
      [] n.node = "KeyValueExpr" -> HasNilNode(n.Key) \/ HasNilNode(n.Value)
      [] n.node \in {"UnaryExpr", "ParenExpr", "StarExpr"} -> HasNilNode(n.X)
      [] n.node = "ArrayType"    -> (n.Len.node # "nil" /\ HasNilNode(n.Len)) \/ HasNilNode(n.Elt)
      [] n.node = "MapType"      -> HasNilNode(n.Key) \/ HasNilNode(n.Value)
      [] n.node = "Field"        -> HasNilNode(n.Type)
      [] n.node = "StructType"   -> (\E i \in 1..Len(n.Fields) : HasNilNode(n.Fields[i]))
      [] n.node = "InterfaceType" -> (\E i \in 1..Len(n.Methods) : HasNilNode(n.Methods[i]))
      [] n.node = "FuncType"     -> (\E i \in 1..Len(n.Params) : HasNilNode(n.Params[i])) \/ (\E i \in 1..Len(n.Results) : HasNilNode(n.Results[i]))
      [] OTHER                   -> FALSE

\* the Error method of the error: the format and the value whose type %T prints
Error(err) ==
    CASE err.e = "ErrInvalidType" ->
           [format |-> "valast: cannot convert value of type %T", T |-> err.Value.t]
      [] err.e = "ErrPointerToInterface" ->
           [format |-> "valast: pointers to interfaces are not allowed, found %T",
            T |-> err.Value.t]
      [] OTHER -> [format |-> err.e, T |-> InvalidType]

\* what StringWithOptions gives its caller
Text(tree)          == [is |-> "string", form |-> "literal", tree |-> tree]
ErrorText(err)      == [is |-> "string", form |-> "err.Error()", err |-> err, text |-> Error(err)]
UnexportedText(t)   == [is |-> "string", form |-> "valast: cannot convert unexported value %T", type |-> t]
\* the call does not return: a panic, or the fatal error of the runtime
Panic(why)          == [is |-> "panic", form |-> why]

\* go/format.Node: an error for a nil root node; the printer panics on a nil
\* expression inside the tree
formatNode(tree) ==
    IF tree = NilExpr THEN [is |-> "string", form |-> "valast: format: %v"]
    ELSE IF HasNilNode(tree) THEN Panic("format.Node: nil ast.Expr")
    ELSE Text(tree)

StringWithOptions(x, opt) ==
    LET o == IF opt.isnil THEN ZeroOptions ELSE opt
        r == AST(x, o, 1)
    IN  IF r.err \in {StackOverflow, ReflectPanic} THEN Panic(r.err.e)
        ELSE IF r.err # NoError THEN ErrorText(r.err)
        ELSE IF o.ExportedOnly /\ r.res.RequiresUnexported THEN UnexportedText(x.t)
        ELSE formatNode(r.res.AST)

(***************************************************************************)
(* The values and Options the callers pass.                                *)
(***************************************************************************)
TBool      == Builtin("bool")
TInt       == Builtin("int")
TInt32     == Builtin("int32")
TFloat64   == Builtin("float64")
TComplex64 == Builtin("complex64")
TString    == Builtin("string")
BasicTypes == {TBool, TInt, TInt32, Builtin("uint"), Builtin("uintptr"), TFloat64, TComplex64,
               TString}

\* interface{}
TEmpty == InterfaceOf(<< >>)
\* the predeclared error: a name and no package
TError == [InterfaceOf(<<Fld(<<"E","r","r","o","r">>, FuncOf(<< >>, <<Fld(NoName, TString)>>))>>)
             EXCEPT !.name = <<"e","r","r","o","r">>]
\* type Bazer interface{ Baz() (err error) }, declared in package test
TBazer == Named(InterfaceOf(<<Fld(<<"B","a","z">>, FuncOf(<< >>, <<Fld(NoName, TError)>>))>>),
                <<"B","a","z","e","r">>, PathTest)
TFunc  == FuncOf(<< >>, << >>)

\* a defined type over t: unexported (x...) or exported (X...), in package pkg
Unexp(t, pkg) == Named(t, <<"x", t.kind>>, pkg)
Exp(t, pkg)   == Named(t, <<"X", t.kind>>, pkg)



\* type foo struct{ bar string }, unexported, in package pkg
TFoo(pkg) == Named(StructOf(<<Fld(<<"b","a","r">>, TString)>>), <<"f","o","o">>, pkg)
\* a struct type of package test with an unexported field n and a field V of type t
TBox(t)   == Named(StructOf(<<Fld(<<"n">>, TInt), Fld(<<"V">>, t)>>), <<"B","o","x">>, PathTest)
\* type ExportedBaz struct{ Bam complex64; zeta foo; Beta interface{} } of package valast
TExportedBaz ==
    Named(StructOf(<<Fld(<<"B","a","m">>, TComplex64), Fld(<<"z","e","t","a">>, TFoo(PathValast)),
                     Fld(<<"B","e","t","a">>, TEmpty)>>),
          <<"E","x","p","o","r","t","e","d","B","a","z">>, PathValast)


\* every value of a basic type t
BasicValues(t) ==
    CASE t.kind = "bool"      -> {BoolV(t, b) : b \in BOOLEAN}
      [] t.kind \in IntKinds   -> {IntV(t, n) : n \in 0..MaxInt}
      [] t.kind = "float64"   -> {FloatV(t, h) : h \in 0..(2 * MaxInt + 1)}
      [] t.kind = "complex64" -> {ComplexV(t, re, im) : re \in 0..MaxInt, im \in 0..MaxInt}
      [] OTHER                -> {StringV(t, s) : s \in {<< >>, <<"a">>, <<"a", "\n", "\"">>}}

\* the value one of a basic type t
One(t) ==
    CASE t.kind = "bool"      -> BoolV(t, TRUE)
      [] t.kind \in IntKinds   -> IntV(t, 1)
      [] t.kind = "float64"   -> FloatV(t, 2)
      [] t.kind = "complex64" -> ComplexV(t, 1, 0)
      [] OTHER                -> StringV(t, <<"a">>)

FooV(pkg) == StructV(TFoo(pkg), <<StringV(TString, <<"a">>)>>)

\* values of defined basic types: unexported in valast and test, exported in test
NamedBasicValues ==
    {One(Unexp(t, PathValast)) : t \in BasicTypes}
    \cup {IntV(Unexp(TInt, PathValast), 0),
          One(Unexp(TInt, PathTest)), One(Exp(TInt, PathTest)),
          One(Exp(TString, PathTest)), One(Exp(TBool, PathTest)),
          One(Exp(TInt, PathBroken))}

\* values of defined composite types, unexported, declared in package valast
NamedCompositeValues ==
    {ArrayV(Unexp(ArrayOf(1, TFloat64), PathValast), <<FloatV(TFloat64, 2)>>),
     MapV(Unexp(MapOf(TString, TString), PathValast), <<KV(One(TString), One(TString))>>),
     NilPtr(Unexp(PtrTo(TInt), PathValast)),
     PtrV(Unexp(PtrTo(TInt), PathValast), 1, One(TInt)),
     SliceV(Unexp(SliceOf(TInt), PathValast), <<One(TInt), IntV(TInt, 0)>>),
     StructV(Unexp(StructOf(<<Fld(<<"A">>, TString)>>), PathValast), <<One(TString)>>),
     UnsafeV(Unexp(UnsafePointerType, PathValast), 255),
     FooV(PathValast), FooV(PathTest)}

\* roots whose anonymous type mentions an unexported defined type
MentioningValues ==
    {StructV(StructOf(<<Fld(<<"V">>, Unexp(TError, PathValast))>>),
             <<IfaceV(Unexp(TError, PathValast), Invalid)>>),
     MapV(MapOf(Unexp(TInt, PathValast), TString), << >>),
     MapV(MapOf(TString, Unexp(TInt, PathValast)), << >>),
     StructV(StructOf(<<Fld(<<"z","e","t","a">>, TFoo(PathValast))>>), <<FooV(PathValast)>>),
     StructV(TExportedBaz, <<ComplexV(TComplex64, 1, 0), FooV(PathValast), IfaceV(TEmpty, Invalid)>>),
     MapV(MapOf(TString, PtrTo(Unexp(TInt, PathValast))),
          <<KV(StringV(TString, <<"b">>),
               PtrV(PtrTo(Unexp(TInt, PathValast)), 1, One(Unexp(TInt, PathValast)))),
            KV(StringV(TString, <<"a">>), NilPtr(PtrTo(Unexp(TInt, PathValast))))>>)}

\* nil and empty values, functions, channels, unsafe pointers
PlainValues ==
    {Invalid, NilSlice(SliceOf(TInt)), SliceV(SliceOf(TInt), << >>),
     NilMap(MapOf(TString, TInt)), MapV(MapOf(TString, TInt), << >>),
     NilPtr(PtrTo(TInt)), NilPtr(PtrTo(TEmpty)), NilPtr(PtrTo(TFoo(PathTest))),
     FuncV(TFunc, TRUE), FuncV(TFunc, FALSE), ChanV(ChanOf(TInt), TRUE),
     ChanV(ChanOf(TInt), FALSE),
     UnsafeV(UnsafePointerType, 0), UnsafeV(UnsafePointerType, 255),
     PtrV(PtrTo(TEmpty), 1, IfaceV(TEmpty, Invalid)),
     StructV(StructOf(<<Fld(<<"A">>, PtrTo(TError))>>),
             <<PtrV(PtrTo(TError), 1, IfaceV(TError, Invalid))>>),
     StructV(StructOf(<<Fld(<<"a">>, TInt), Fld(<<"b">>, TInt), Fld(<<"V">>, TString)>>),
             <<IntV(TInt, 1), IntV(TInt, 0), One(TString)>>)}

\* maps of two entries, in both orders MapKeys may return, over keys of type kt
TwoEntryMaps(kt, keys) ==
    {MapV(MapOf(kt, TInt32), <<KV(p[1], IntV(TInt32, 0)), KV(p[2], IntV(TInt32, 1))>>) :
        p \in {q \in keys \X keys : q[1] # q[2]}}

\* maps whose keys valueLess orders, and maps whose keys it does not order
SortedKeyMaps ==
    TwoEntryMaps(TString, {StringV(TString, <<"a">>), StringV(TString, <<"b">>),
                           StringV(TString, <<"a", "b">>)})
    \cup TwoEntryMaps(TInt, {IntV(TInt, 0), IntV(TInt, 1)})
    \cup TwoEntryMaps(TBool, {BoolV(TBool, FALSE), BoolV(TBool, TRUE)})
    \cup TwoEntryMaps(Builtin("uint"), {IntV(Builtin("uint"), 0), IntV(Builtin("uint"), 1)})
    \cup TwoEntryMaps(Builtin("uintptr"),
                      {IntV(Builtin("uintptr"), 0), IntV(Builtin("uintptr"), 1)})
    \* maps of three entries, in the six orders
    \cup {MapV(MapOf(TString, TInt32),
               [i \in 1..3 |-> KV(StringV(TString, p[i]), IntV(TInt32, 1))]) :
            p \in {q \in {<<"a">>, <<"b">>, <<"a", "b">>} \X {<<"a">>, <<"b">>, <<"a", "b">>}
                              \X {<<"a">>, <<"b">>, <<"a", "b">>} :
                      q[1] # q[2] /\ q[1] # q[3] /\ q[2] # q[3]}}

UnsortedKeyMaps ==
    TwoEntryMaps(ArrayOf(1, TInt), {ArrayV(ArrayOf(1, TInt), <<IntV(TInt, n)>>) : n \in 0..1})
    \cup TwoEntryMaps(TComplex64, {ComplexV(TComplex64, 0, 1), ComplexV(TComplex64, 1, 0)})
    \cup TwoEntryMaps(TEmpty, {IfaceV(TEmpty, One(TInt)), IfaceV(TEmpty, One(TString))})
    \cup TwoEntryMaps(StructOf(<<Fld(<<"A">>, TInt)>>),
                      {StructV(StructOf(<<Fld(<<"A">>, TInt)>>), <<IntV(TInt, n)>>) : n \in 0..1})

\* the composite values with x as their one element, field, key, value or target
Wrap(x) ==
    LET t == x.t IN
    {PtrV(PtrTo(t), 1, x),
     SliceV(SliceOf(t), <<x>>),
     ArrayV(ArrayOf(1, t), <<x>>),
     SliceV(SliceOf(TEmpty), <<IfaceV(TEmpty, x)>>),
     StructV(StructOf(<<Fld(<<"A">>, t)>>), <<x>>),
     StructV(StructOf(<<Fld(<<"a">>, t)>>), <<x>>),
     StructV(TBox(t), <<IntV(TInt, 1), x>>),
     StructV(TExportedBaz, <<ComplexV(TComplex64, 0, 0), FooV(PathValast), IfaceV(TEmpty, x)>>),
     MapV(MapOf(TString, t), <<KV(One(TString), x)>>),
     MapV(MapOf(TString, TEmpty), <<KV(One(TString), IfaceV(TEmpty, x))>>),
     MapV(MapOf(TEmpty, TString), <<KV(IfaceV(TEmpty, x), One(TString))>>),
     PtrV(PtrTo(TEmpty), 1, IfaceV(TEmpty, x)),
     PtrV(PtrTo(TBazer), 1, IfaceV(TBazer, x))}
    \* Go allows values of type t as map keys
    \cup (IF t.kind \notin {"slice", "map", "func"}
          THEN {MapV(MapOf(t, TString), <<KV(x, One(TString))>>)} ELSE {})

\* the composite values around a composite value y
WrapAgain(y) ==
    LET t == y.t IN
    {PtrV(PtrTo(t), 1, y),
     SliceV(SliceOf(t), <<y>>),
     SliceV(SliceOf(TEmpty), <<IfaceV(TEmpty, y)>>),
     StructV(StructOf(<<Fld(<<"A">>, t)>>), <<y>>),
     StructV(TBox(t), <<IntV(TInt, 0), y>>),
     MapV(MapOf(TString, t), <<KV(One(TString), y)>>),
     MapV(MapOf(Unexp(TInt, PathValast), t),
          <<KV(One(Unexp(TInt, PathValast)), y)>>)}

\* values held in an interface-typed slot, as reflection on a field or an element
\* gives them to AST
InterfaceSlots ==
    {IfaceV(it, x) : it \in {TEmpty, TBazer, TError, Unexp(TError, PathValast)},
                     x \in {Invalid, One(TInt), One(TInt32), FooV(PathTest)}}

\* strings around the length from which a string with a line break is written raw:
\* of that length and one longer, with and without a line break, a carriage
\* return, a back quote
LongStrings ==
    LET Pad(n) == [i \in 1..n |-> "a"] IN
    {StringV(TString, s) : s \in {Pad(RawStringMinLen - 1) \o <<"\n">>,
                                  Pad(RawStringMinLen) \o <<"\n">>,
                                  <<"\n">> \o Pad(RawStringMinLen),
                                  Pad(RawStringMinLen + 1),
                                  Pad(RawStringMinLen - 1) \o <<"\n", Backquote>>,
                                  Pad(RawStringMinLen - 1) \o <<"\r", "\n">>}}

\* cyclic structures
CyclicValues == {NodePtr(1), NodePtr(2), Heap(1)}

\* what StringWithOptions can be given: reflect.ValueOf never yields an interface
StringInputs ==
    LET \* the values the composite values are built over
        CoreValues ==
            {One(TInt), IntV(TInt, 0), One(TInt32), One(TFloat64), One(TString), One(TBool),
             One(Unexp(TInt, PathValast)), One(Exp(TInt, PathTest)),
             One(Exp(TInt, PathBroken)),
             FuncV(TFunc, FALSE), NilPtr(PtrTo(TInt)), NilSlice(SliceOf(TInt))}
        Depth1 == UNION {Wrap(x) : x \in CoreValues}
        Depth2 == UNION {WrapAgain(y) : y \in Depth1}
    IN
    UNION {BasicValues(t) : t \in BasicTypes} \cup NamedBasicValues \cup NamedCompositeValues
    \cup MentioningValues \cup PlainValues \cup SortedKeyMaps \cup UnsortedKeyMaps
    \cup CyclicValues \cup LongStrings \cup Depth1 \cup Depth2

\* what AST can be given: also the values held in interface-typed slots, and
\* values a caller reads by reflection from unexported struct fields
Inputs ==
    StringInputs \cup InterfaceSlots
    \cup {ReadOnly(x) : x \in {FuncV(TFunc, FALSE), ChanV(ChanOf(TInt), TRUE), One(TInt),
                               FooV(PathTest), PtrV(PtrTo(TEmpty), 1, IfaceV(TEmpty, Invalid))}}

Opt(unq, path, name, eo, resolver) ==
    [isnil |-> FALSE, Unqualify |-> unq, PackagePath |-> path, PackageName |-> name,
     ExportedOnly |-> eo, PackagePathToName |-> resolver]

OptionsSet ==
    {Opt(unq, p[1], p[2], eo, "nil") : unq \in BOOLEAN, eo \in BOOLEAN, 
        p \in {<<"", NoName>>, <<PathValast, NameValast>>, <<PathOther, NameOther>>,
               <<PathClash, NameTest>>}}
    \cup {Opt(FALSE, PathOther, NameOther, eo, "injected") : eo \in BOOLEAN}
    \cup {NilOptions}

(***************************************************************************)
(* The callers.                                                            *)
(***************************************************************************)
NoRet == Ret(EmptyResult, NoError)
NoOutput == [is |-> "none", form |-> ""]

RECURSIVE Rehash(_)
\* the same value with the keys of every map in it returned in the reverse order
Rehash(x) ==
    CASE Kind(x) = "map"                -> [x EXCEPT !.pairs = [i \in 1..Len(x.pairs) |->
                                               KV(Rehash(x.pairs[Len(x.pairs) + 1 - i].key),
                                                  Rehash(x.pairs[Len(x.pairs) + 1 - i].val))]]
      [] Kind(x) \in {"array", "slice"}  -> [x EXCEPT !.elts = [i \in 1..Len(x.elts) |-> Rehash(x.elts[i])]]
      [] Kind(x) = "struct"             -> [x EXCEPT !.fields = [i \in 1..Len(x.fields) |-> Rehash(x.fields[i])]]
      [] Kind(x) = "interface"          -> [x EXCEPT !.held = Rehash(x.held)]
      [] Kind(x) = "ptr"                -> [x EXCEPT !.elem = Rehash(x.elem)]
      [] OTHER                          -> x

RECURSIVE HasMap(_)
\* whether a map of two or more entries is part of x
HasMap(x) ==
    CASE Kind(x) = "map"                -> \/ Len(x.pairs) > 1
                                           \/ \E i \in 1..Len(x.pairs) :
                                                HasMap(x.pairs[i].key) \/ HasMap(x.pairs[i].val)
      [] Kind(x) \in {"array", "slice"}  -> \E i \in 1..Len(x.elts) : HasMap(x.elts[i])
      [] Kind(x) = "struct"             -> \E i \in 1..Len(x.fields) : HasMap(x.fields[i])
      [] Kind(x) = "interface"          -> HasMap(x.held)
      [] Kind(x) = "ptr"                -> HasMap(x.elem)
      [] OTHER                          -> FALSE

\* the Options objects of the callers, by address: &Options{} and a second one
CallerOptions(a) ==
    IF a = <<0, 1>> THEN ZeroOptions ELSE Opt(TRUE, PathValast, NameValast, TRUE, "nil")

\* a goroutine that is not in a call
IdleCall ==
    [status |-> "idle", root |-> Invalid, opt |-> <<0, 0>>, stack |-> << >>, ret |-> NoRet,
     n |-> 0, reads |-> {}, writes |-> {}, overlapped |-> FALSE]

Init ==
    /\ pc = "idle"
    /\ input = Invalid
    /\ options = NilOptions
    /\ ret = NoRet
    /\ out = NoOutput
    /\ prev = NoRet
    /\ mem = [a \in {<<0, 1>>, <<0, 2>>} |-> CallerOptions(a)]
    /\ calls = [p \in {1, 2} |-> IdleCall]

\* a caller calls AST(v, opt)
CallAST ==
    /\ pc = "idle"
    /\ \E x \in Inputs, o \in OptionsSet :
        /\ pc' = "AST"
        /\ input' = x
        /\ options' = o
        /\ ret' = AST(x, o, 1)
        /\ out' = NoOutput
        /\ prev' = NoRet
        /\ UNCHANGED <<mem, calls>>

\* a caller calls StringWithOptions(v, opt); String(v) is the call with a nil opt
CallStringWithOptions ==
    /\ pc = "idle"
    /\ \E x \in StringInputs, o \in OptionsSet :
        /\ pc' = "StringWithOptions"
        /\ input' = x
        /\ options' = o
        /\ ret' = AST(x, IF o.isnil THEN ZeroOptions ELSE o, 1)
        /\ out' = StringWithOptions(x, o)
        /\ prev' = NoRet
        /\ UNCHANGED <<mem, calls>>

\* the caller of AST calls it again on the same value with the same Options; the
\* runtime returns the keys of its maps in another order (a value without a map
\* of two entries is the same value again, and the call the same call)
CallASTAgain ==
    /\ pc \in {"AST", "again"}
    /\ HasMap(input)
    /\ pc' = "again"
    /\ input' = Rehash(input)
    /\ prev' = ret
    /\ ret' = AST(Rehash(input), options, 1)
    /\ UNCHANGED <<options, out, mem, calls>>

\* the caller drops the result
Return ==
    /\ pc # "idle"
    /\ pc' = "idle"
    /\ input' = Invalid
    /\ options' = NilOptions
    /\ ret' = NoRet
    /\ out' = NoOutput
    /\ prev' = NoRet
    /\ UNCHANGED <<mem, calls>>

Next ==
    \/ CallAST
    \/ CallStringWithOptions
    \/ CallASTAgain
    \/ Return

Spec == Init /\ [][Next]_vars

(***************************************************************************)
(* Two goroutines that call AST at the same time.  A call runs in steps:   *)
(* each step is one frame of the recursion reading its *Options, making    *)
(* the copy for a nested call, or returning.  Options live in mem, by      *)
(* address: <<0, k>> for the callers' objects, <<p, k>> for the k-th       *)
(* allocation of goroutine p.                                              *)
(***************************************************************************)
\* values made of basic values, arrays, slices and pointers
ConcInputs ==
    {One(TInt), One(Exp(TInt, PathBroken)),
     SliceV(SliceOf(TInt), <<One(TInt), IntV(TInt, 0)>>),
     PtrV(PtrTo(TInt), 1, One(TInt)), NilPtr(PtrTo(TInt)),
     SliceV(SliceOf(PtrTo(TInt)), <<PtrV(PtrTo(TInt), 1, One(TInt))>>),
     SliceV(SliceOf(PtrTo(TInt)), <<PtrV(PtrTo(TInt), 1, One(TInt)), PtrV(PtrTo(TInt), 1, One(TInt))>>),
     ArrayV(ArrayOf(1, SliceOf(TString)), <<SliceV(SliceOf(TString), <<One(TString)>>)>>),
     SliceV(SliceOf(TFunc), <<FuncV(TFunc, FALSE)>>)}

\* opt.withUnqualify() done in place: o.Unqualify = true; return o
withUnqualifyInPlace(m, a, b) == [mem |-> [m EXCEPT ![a].Unqualify = TRUE], addr |-> a]

\* opt.withUnqualify() on the Options at address a: tmp := *o at the fresh address
\* b, tmp.Unqualify = true, return &tmp
withUnqualifyAt(m, a, b) == [mem |-> (b :> [m[a] EXCEPT !.Unqualify = TRUE]) @@ m, addr |-> b]

\* whether the frame f, with the Options o behind its pointer, makes a nested call
\* next: for the next element, or for the target of a pointer
descends(f, o) ==
    /\ \A i \in 1..Len(f.acc) : f.acc[i].err = NoError
    /\ \/ Kind(f.v) \in {"array", "slice"} /\ f.i <= Len(f.v.elts)
       \/ /\ Kind(f.v) = "ptr" /\ f.i = 1 /\ ~f.v.isnil /\ ~isPointerToInterface(f.v)
          /\ LET ptrType == typeExpr(f.v.t, o) IN
             ptrType.err = NoError /\ ~(o.ExportedOnly /\ ptrType.res.RequiresUnexported)

\* goroutine p calls AST(v, opt) with opt nil (<<0, 0>>) or the address of one of
\* the callers' Options; a nil opt becomes &Options{}
StartCall(p) ==
    /\ calls[p].status = "idle"
    /\ \E v \in ConcInputs, a \in {<<0, 0>>, <<0, 1>>, <<0, 2>>} :
         LET opt == IF a = <<0, 0>> THEN <<p, 1>> ELSE a IN
         /\ mem' = IF a = <<0, 0>> THEN (opt :> ZeroOptions) @@ mem ELSE mem
         /\ calls' = [q \in {1, 2} |->
                IF q = p
                THEN [status |-> "running", root |-> v, opt |-> a,
                      stack |-> <<[v |-> v, opt |-> opt, i |-> 1, acc |-> << >>]>>,
                      ret |-> NoRet, n |-> IF a = <<0, 0>> THEN 1 ELSE 0,
                      reads |-> {}, writes |-> IF a = <<0, 0>> THEN {opt} ELSE {},
                      overlapped |-> calls[3 - p].status = "running"]
                ELSE [calls[q] EXCEPT !.overlapped = @ \/ calls[q].status = "running"]]
    /\ UNCHANGED <<pc, input, options, ret, out, prev>>

\* a nested call whose pointer case writes the Options it was given before it
\* encodes the target: opt.Unqualify = false
DescendPtrInPlace(p) ==
    LET c == calls[p]
        f == c.stack[Len(c.stack)]
    IN
    /\ c.status = "running"
    /\ descends(f, mem[f.opt])
    /\ IF Kind(f.v) = "ptr"
       THEN /\ mem' = [mem EXCEPT ![f.opt].Unqualify = FALSE]
            /\ calls' = [calls EXCEPT
                   ![p].stack = [c.stack EXCEPT ![Len(c.stack)].i = 2]
                                \o <<[v |-> Elem(f.v), opt |-> f.opt, i |-> 1, acc |-> << >>]>>,
                   ![p].reads = @ \cup {f.opt}]
       ELSE LET w == withUnqualifyAt(mem, f.opt, <<p, c.n + 1>>) IN
            /\ mem' = w.mem
            /\ calls' = [calls EXCEPT
                   ![p].stack = [c.stack EXCEPT ![Len(c.stack)].i = f.i + 1]
                                \o <<[v |-> f.v.elts[f.i], opt |-> w.addr, i |-> 1, acc |-> << >>]>>,
                   ![p].n = c.n + 1,
                   ![p].reads = @ \cup {f.opt},
                   ![p].writes = @ \cup {w.addr}]
    /\ UNCHANGED <<pc, input, options, ret, out, prev>>

\* the top frame of goroutine p makes its next nested call: AST(vv.Index(i),
\* opt.withUnqualify()) for an element, AST(vv.Elem(), opt) for a pointer's target
Descend(p) ==
    LET c == calls[p]
        f == c.stack[Len(c.stack)]
    IN
    /\ c.status = "running"
    /\ descends(f, mem[f.opt])
    /\ IF Kind(f.v) = "ptr"
       THEN /\ mem' = mem
            /\ calls' = [calls EXCEPT
                   ![p].stack = [c.stack EXCEPT ![Len(c.stack)].i = 2]
                                \o <<[v |-> Elem(f.v), opt |-> f.opt, i |-> 1, acc |-> << >>]>>,
                   ![p].reads = @ \cup {f.opt}]
       ELSE LET w == withUnqualifyAt(mem, f.opt, <<p, c.n + 1>>) IN
            /\ mem' = w.mem
            /\ calls' = [calls EXCEPT
                   ![p].stack = [c.stack EXCEPT ![Len(c.stack)].i = f.i + 1]
                                \o <<[v |-> f.v.elts[f.i], opt |-> w.addr, i |-> 1, acc |-> << >>]>>,
                   ![p].n = c.n + 1,
                   ![p].reads = @ \cup {f.opt},
                   ![p].writes = @ \cup {w.addr}]
    /\ UNCHANGED <<pc, input, options, ret, out, prev>>

\* the top frame of goroutine p returns: the error of a nested call, or the Result
\* it builds with the Options behind its pointer
ReturnFrom(p) ==
    LET c == calls[p]
        f == c.stack[Len(c.stack)]
        o == mem[f.opt]
        failed == {i \in 1..Len(f.acc) : f.acc[i].err # NoError}
        T == typeExpr(f.v.t, o)
        r == IF failed # {} THEN Ret(EmptyResult, f.acc[CHOOSE i \in failed : TRUE].err)
             ELSE IF Kind(f.v) \in {"array", "slice"}
             THEN (IF T.err # NoError THEN Ret(EmptyResult, T.err)
                   ELSE Ret(Result(CompositeLit(T.res.AST, [i \in 1..Len(f.acc) |-> f.acc[i].res.AST]),
                                   FALSE,
                                   T.res.RequiresUnexported
                                      \/ \E i \in 1..Len(f.acc) : f.acc[i].res.RequiresUnexported),
                            NoError))
             ELSE IF Kind(f.v) = "ptr" /\ f.i = 2
             THEN Ret(Result(UnaryExpr("&", f.acc[1].res.AST), f.acc[1].res.OmittedUnexported,
                             T.res.RequiresUnexported \/ f.acc[1].res.RequiresUnexported), NoError)
             ELSE AST(f.v, o, 1)
        rest == SubSeq(c.stack, 1, Len(c.stack) - 1)
    IN
    /\ c.status = "running"
    /\ ~descends(f, o)
    /\ calls' = [calls EXCEPT
           ![p].reads = @ \cup {f.opt},
           ![p].stack = IF rest = << >> THEN rest
                        ELSE [rest EXCEPT ![Len(rest)].acc = Append(@, r)],
           ![p].status = IF rest = << >> THEN "done" ELSE "running",
           ![p].ret = IF rest = << >> THEN r ELSE c.ret]
    /\ UNCHANGED <<mem, pc, input, options, ret, out, prev>>

\* the caller of goroutine p drops the result, and with it the Options the call made
Finish(p) ==
    /\ calls[p].status = "done"
    /\ calls' = [calls EXCEPT ![p] = IdleCall]
    /\ mem' = [a \in {b \in DOMAIN mem : b[1] # p} |-> mem[a]]
    /\ UNCHANGED <<pc, input, options, ret, out, prev>>

ConcNext == \E p \in {1, 2} : StartCall(p) \/ Descend(p) \/ ReturnFrom(p) \/ Finish(p)

ConcSpec == Init /\ [][ConcNext]_vars

(***************************************************************************)
(* Properties.                                                             *)
(***************************************************************************)
\* a call has returned to its caller
Called == pc # "idle"

\* the Options the call runs with: a nil *Options is &Options{}
Effective == IF options.isnil THEN ZeroOptions ELSE options

\* whether x is a non-nil pointer whose target is an interface-typed slot
PointsToInterface(x) == Kind(x) = "ptr" /\ ~x.isnil /\ Kind(x.elem) = "interface"

\* C4: a non-nil pointer to an interface-typed slot, whether the interface holds a
\* value or is nil, makes AST return ErrPointerToInterface carrying the pointer and
\* the empty Result (no AST); when the pointer is the first non-zero field of a
\* struct, the root call returns that same error; StringWithOptions returns the
\* error's message
C4_PointerToInterface ==
    /\ Called /\ PointsToInterface(input)
          => /\ ret = Ret(EmptyResult, ErrPointerToInterface(unexported(input)))
             /\ pc = "StringWithOptions"
                  => /\ out = ErrorText(ErrPointerToInterface(input))
                     /\ out.text = [format |-> "valast: pointers to interfaces are not allowed, found %T",
                                    T |-> input.t]
    /\ Called /\ Kind(input) = "struct"
          => \A i \in 1..Len(input.fields) :
                /\ PointsToInterface(input.fields[i])
                /\ \A j \in 1..(i - 1) : IsZero(input.fields[j])
                => ret = Ret(EmptyResult, ErrPointerToInterface(input.fields[i]))

\* C4 happens: a struct whose one field points to a nil interface was given to AST,
\* and the root call returned the error carrying that pointer
C4_Witness ==
    /\ pc = "AST" /\ Kind(input) = "struct" /\ Len(input.fields) = 1
    /\ PointsToInterface(input.fields[1]) /\ Kind(input.fields[1].elem.held) = "invalid"
    /\ ret = Ret(EmptyResult, ErrPointerToInterface(input.fields[1]))

\* C5: a function or a channel makes AST return ErrInvalidType carrying the value,
\* and a Result without an AST
C5_InvalidType ==
    Called /\ Kind(input) \in {"func", "chan"}
        => /\ ret.err = ErrInvalidType(input)
           /\ ret.res.AST = NilExpr
           /\ pc = "StringWithOptions" => out = ErrorText(ErrInvalidType(input))

\* the keys a struct literal has when it names every non-zero field of x, from
\* field i on, in the order of the declaration
RECURSIVE NonZeroKeys(_, _)
NonZeroKeys(x, i) ==
    IF i > Len(x.fields) THEN << >>
    ELSE (IF IsZero(x.fields[i]) THEN << >> ELSE <<Ident(x.t.fields[i].name)>>)
         \o NonZeroKeys(x, i + 1)

\* C8: with ExportedOnly=false, the composite literal AST returns for a struct has
\* key/value pairs only, one for each non-zero field and none for a zero field,
\* keyed by the field's name, in the order of the declaration
C8_ZeroValueOmission ==
    Called /\ Kind(input) = "struct" /\ ~Effective.ExportedOnly /\ ret.err = NoError
        => /\ ret.res.AST.node = "CompositeLit"
           /\ \A i \in 1..Len(ret.res.AST.Elts) : ret.res.AST.Elts[i].node = "KeyValueExpr"
           /\ [i \in 1..Len(ret.res.AST.Elts) |-> ret.res.AST.Elts[i].Key] = NonZeroKeys(input, 1)

\* C8 happens: a struct of three fields, the second one zero, was encoded with
\* ExportedOnly=false into a literal of two pairs
C8_Witness ==
    /\ pc = "AST" /\ Kind(input) = "struct" /\ ~Effective.ExportedOnly /\ ret.err = NoError
    /\ Len(input.fields) = 3 /\ IsZero(input.fields[2])
    /\ ~IsZero(input.fields[1]) /\ ~IsZero(input.fields[3])
    /\ Len(ret.res.AST.Elts) = 2

\* C7: whatever order MapKeys returns the keys of a map in, AST returns the same
\* Result for it (the same sequence of key/value pairs), for keys of every kind
C7_DeterministicMaps ==
    pc = "again" /\ Kind(input) = "map" => ret = prev

\* C9: with ExportedOnly=true, the composite literal AST returns for a struct has no
\* pair keyed by an unexported field name, and a struct whose own type is an
\* unexported defined type of another package is omitted (nil AST, RequiresUnexported)
C9_NoUnexportedKeys ==
    Called /\ Kind(input) = "struct" /\ Effective.ExportedOnly /\ ret.err = NoError
        => /\ ret.res.AST # NilExpr
              => \A i \in 1..Len(ret.res.AST.Elts) : IsExported(ret.res.AST.Elts[i].Key.Name)
           /\ input.t.name # NoName /\ ~IsExported(input.t.name)
                 /\ input.t.pkg # Effective.PackagePath
              => ret.res.AST = NilExpr /\ ret.res.RequiresUnexported

\* C2: StringWithOptions returns a string to its caller, for every value and Options
C2_AlwaysReturnsString ==
    pc = "StringWithOptions" => out.is = "string"

\* whether t is an unexported defined type of a package other than the current
\* package of the Options o
ForeignUnexported(t, o) ==
    t.name # NoName /\ t.pkg # "" /\ t.pkg # o.PackagePath /\ ~IsExported(t.name)

\* whether the type t is such a type, or an anonymous type built over one
RECURSIVE Mentions(_, _)
Mentions(t, o) ==
    \/ ForeignUnexported(t, o)
    \/ /\ t.name = NoName
       /\ CASE t.kind \in {"array", "slice", "ptr", "chan"} -> Mentions(t.elem, o)
            [] t.kind = "map"    -> Mentions(t.key, o) \/ Mentions(t.elem, o)
            [] t.kind = "struct" -> \E i \in 1..Len(t.fields) : Mentions(t.fields[i].type, o)
            [] OTHER             -> FALSE

\* C3: with ExportedOnly=true, when the root's own type is an unexported defined
\* type of another package (of kind bool, integer, float, complex, array, map, slice,
\* string, struct, unsafe pointer or pointer), or when the root's anonymous struct or
\* map type mentions such a type, and AST returns no error, StringWithOptions
\* returns "valast: cannot convert unexported value <type>" and no literal
C3_UnexportedRootFails ==
    /\ pc = "StringWithOptions" /\ Effective.ExportedOnly /\ ret.err = NoError
    /\ \/ /\ ForeignUnexported(input.t, Effective)
          /\ Kind(input) \in {"bool", "string", "array", "map", "slice", "struct",
                               "unsafeptr", "ptr"} \cup NumKinds
       \/ /\ Kind(input) \in {"struct", "map"} /\ input.t.name = NoName
          /\ Mentions(input.t, Effective)
    => out = UnexportedText(input.t)

Lower == {"a", "b", "c", "d", "e", "f", "g", "h", "i", "j", "k", "l", "m",
          "n", "o", "p", "q", "r", "s", "t", "u", "v", "w", "x", "y", "z"}

\* whether the identifier is a name a package declares and does not export
UnexportedName(name) ==
    /\ Len(name) > 0 /\ name[1] \in Lower
    /\ name \notin {<<"t","r","u","e">>, <<"f","a","l","s","e">>, <<"n","i","l">>}

\* the unexported names of other packages in a tree: the selectors pkg.name, and
\* the keys of the composite literals of a type pkg.Name
RECURSIVE ForeignNames(_)
ForeignNames(n) ==
    LET All(ns) == UNION {ForeignNames(ns[i]) : i \in 1..Len(ns)} IN
    CASE n.node = "SelectorExpr" -> IF UnexportedName(n.Sel.Name) THEN {n.Sel.Name} ELSE {}
      [] n.node = "CompositeLit" ->
           ForeignNames(n.Type) \cup All(n.Elts)
           \cup (IF n.Type.node # "SelectorExpr" THEN {}
                 ELSE {n.Elts[i].Key.Name : i \in {j \in 1..Len(n.Elts) :
                          /\ n.Elts[j].node = "KeyValueExpr"
                          /\ n.Elts[j].Key.node = "Ident"
                          /\ UnexportedName(n.Elts[j].Key.Name)}})
      [] n.node = "KeyValueExpr"  -> ForeignNames(n.Key) \cup ForeignNames(n.Value)
      [] n.node = "CallExpr"      -> ForeignNames(n.Fun) \cup All(n.Args)
      [] n.node \in {"UnaryExpr", "ParenExpr", "StarExpr"} -> ForeignNames(n.X)
      [] n.node = "ArrayType"     -> ForeignNames(n.Elt)
      [] n.node = "MapType"       -> ForeignNames(n.Key) \cup ForeignNames(n.Value)
      [] n.node = "Field"         -> ForeignNames(n.Type)
      [] n.node = "StructType"    -> All(n.Fields)
      [] n.node = "InterfaceType" -> All(n.Methods)
      [] n.node = "FuncType"      -> All(n.Params) \cup All(n.Results)
      [] OTHER                    -> {}

\* C10: with ExportedOnly=true, a literal StringWithOptions returns holds no
\* unexported name of another package: no selector pkg.name, and no unexported
\* key in a composite literal of a type pkg.Name
C10_NoForeignUnexportedName ==
    pc = "StringWithOptions" /\ Effective.ExportedOnly /\ out.form = "literal"
        => ForeignNames(out.tree) = {}

\* x and the values in it at any depth: elements, keys, values, pointer targets,
\* held values and non-zero struct fields (a pointer into a cycle is not followed)
RECURSIVE SubValues(_)
SubValues(x) ==
    {x} \cup
    CASE Kind(x) \in {"array", "slice"} -> UNION {SubValues(x.elts[i]) : i \in 1..Len(x.elts)}
      [] Kind(x) = "map" ->
           UNION {SubValues(x.pairs[i].key) \cup SubValues(x.pairs[i].val) : i \in 1..Len(x.pairs)}
      [] Kind(x) = "ptr" ->
           IF x.isnil \/ Kind(x.elem) = "ref" THEN {} ELSE SubValues(x.elem)
      [] Kind(x) = "interface" -> SubValues(x.held)
      [] Kind(x) = "struct" ->
           UNION {SubValues(x.fields[i]) : i \in {j \in 1..Len(x.fields) : ~IsZero(x.fields[j])}}
      [] OTHER -> {}

\* whether AST returns an error for y encoded on its own with the Options of the call
FailsAlone(y) == AST(y, Effective, 1).err # NoError

RECURSIVE Traversed(_, _)
Traversed(x, o) ==
    {x} \cup
    CASE Kind(x) \in {"array", "slice"} -> UNION {Traversed(x.elts[i], o) : i \in 1..Len(x.elts)}
      [] Kind(x) = "map" ->
           UNION {Traversed(x.pairs[i].key, o) \cup
                  (LET k == AST(x.pairs[i].key, withUnqualify(o), 1) IN
                   IF k.err # NoError \/ (k.res.RequiresUnexported /\ o.ExportedOnly) THEN {}
                   ELSE Traversed(x.pairs[i].val, o)) : i \in 1..Len(x.pairs)}
      [] Kind(x) = "ptr" ->
           IF x.isnil \/ Kind(x.elem) \in {"ref", "interface"} THEN {}
           ELSE LET ptrType == typeExpr(x.t, o) IN
                IF ptrType.err # NoError \/ (o.ExportedOnly /\ ptrType.res.RequiresUnexported)
                THEN {} ELSE Traversed(x.elem, o)
      [] Kind(x) = "interface" ->
           IF o.ExportedOnly /\ ~IsExported(x.t.name) THEN {} ELSE Traversed(x.held, o)
      [] Kind(x) = "struct" ->
           UNION {Traversed(x.fields[i], o) : i \in {j \in 1..Len(x.fields) : ~IsZero(x.fields[j])}}
      [] OTHER -> {}

RECURSIVE UnquoteChars(_, _)
\* the characters of an interpreted string literal s from position i on, up to the
\* closing quote
UnquoteChars(s, i) ==
    IF i >= Len(s) THEN << >>
    ELSE IF s[i] = "\\"
    THEN <<(CASE s[i + 1] = "n" -> "\n" [] s[i + 1] = "r" -> "\r" [] s[i + 1] = "t" -> "\t"
              [] OTHER -> s[i + 1])>> \o UnquoteChars(s, i + 2)
    ELSE <<s[i]>> \o UnquoteChars(s, i + 1)

\* the string a string literal denotes: a raw literal loses its carriage returns
Unquote(text) ==
    IF text[1] = Backquote
    THEN SelectSeq(SubSeq(text, 2, Len(text) - 1), LAMBDA c : c # "\r")
    ELSE UnquoteChars(text, 2)

Digits == {"0", "1", "2", "3", "4", "5", "6", "7", "8", "9"}

RECURSIVE ParseNat(_, _, _)
\* the number the decimal digits of s denote, from position i on
ParseNat(s, i, acc) ==
    IF i > Len(s) THEN acc
    ELSE ParseNat(s, i + 1, 10 * acc + (CHOOSE d \in 0..9 : ToString(d) = s[i]))

IsNat(s) == Len(s) > 0 /\ \A i \in 1..Len(s) : s[i] \in Digits

\* the kind of the default type of the constant a literal text denotes
DefaultKind(text) ==
    CASE text \in {<<"t","r","u","e">>, <<"f","a","l","s","e">>} -> "bool"
      [] text[1] \in {"\"", Backquote} -> "string"
      [] text[1] = "("                 -> "complex128"
      [] Contains(text, ".")           -> "float64"
      [] OTHER                         -> "int"

\* whether the constant the literal text denotes, converted to the type of x, is x
ConstantIs(text, x) ==
    CASE Kind(x) = "bool"      -> DefaultKind(text) = "bool" /\ (text = <<"t","r","u","e">>) = x.b
      [] Kind(x) \in IntKinds   -> IsNat(text) /\ ParseNat(text, 1, 0) = x.n
      [] Kind(x) = "float64"   ->
           \/ IsNat(text) /\ 2 * ParseNat(text, 1, 0) = x.h
           \/ /\ Len(text) > 2 /\ SubSeq(text, Len(text) - 1, Len(text)) = <<".", "5">>
              /\ IsNat(SubSeq(text, 1, Len(text) - 2))
              /\ 2 * ParseNat(SubSeq(text, 1, Len(text) - 2), 1, 0) + 1 = x.h
      [] Kind(x) = "complex64" -> text = Sprint(x)
      [] Kind(x) = "string"    -> DefaultKind(text) = "string" /\ Unquote(text) = x.s
      [] OTHER                 -> FALSE

RECURSIVE TypeDenotes(_, _, _)
\* whether the type expression te, written in the current package of the Options
\* o, denotes the type t
TypeDenotes(te, t, o) ==
    LET Fields(fs, ts, named) ==
            /\ Len(fs) = Len(ts)
            /\ \A i \in 1..Len(ts) :
                 /\ fs[i].node = "Field"
                 /\ fs[i].Names = (IF named THEN <<Ident(ts[i].name)>> ELSE << >>)
                 /\ TypeDenotes(fs[i].Type, ts[i].type, o)
    IN
    IF t = UnsafePointerType
    THEN te = SelectorExpr(Ident(NameUnsafe), Ident(t.name))
    ELSE IF t.name # NoName
    THEN \/ te = Ident(t.name) /\ (t.pkg = "" \/ t.pkg = o.PackagePath)
         \/ te = SelectorExpr(Ident(DeclaredName(t.pkg)), Ident(t.name)) /\ t.pkg # ""
    ELSE CASE t.kind = "ptr"   -> te.node = "StarExpr" /\ TypeDenotes(te.X, t.elem, o)
           [] t.kind = "slice" -> /\ te.node = "ArrayType" /\ te.Len = NilExpr
                                  /\ TypeDenotes(te.Elt, t.elem, o)
           [] t.kind = "array" -> /\ te.node = "ArrayType"
                                  /\ te.Len = BasicLit("INT", Decimal(t.len))
                                  /\ TypeDenotes(te.Elt, t.elem, o)
           [] t.kind = "map"   -> /\ te.node = "MapType"
                                  /\ TypeDenotes(te.Key, t.key, o)
                                  /\ TypeDenotes(te.Value, t.elem, o)
           [] t.kind = "struct" -> te.node = "StructType" /\ Fields(te.Fields, t.fields, TRUE)
           [] t.kind = "interface" ->
                te.node = "InterfaceType" /\ Fields(te.Methods, t.methods, TRUE)
           [] t.kind = "func"  -> /\ te.node = "FuncType"
                                  /\ Fields(te.Params, t.ins, FALSE)
                                  /\ Fields(te.Results, t.outs, FALSE)
           [] OTHER            -> FALSE

RECURSIVE Denotes(_, _, _, _)
\* whether the expression tree, written in the current package of the Options o,
\* evaluates by the rules of Go to the value x; typed: the place of the expression
\* gives it the type of x (an element, key, value or field of that type), so that
\* an untyped constant or nil is converted to it
Denotes(tree, x, typed, o) ==
    CASE x = Invalid -> tree = NilIdent
      [] Kind(x) = "interface" -> Denotes(tree, x.held, FALSE, o)
      [] Kind(x) \in {"bool", "string"} \cup NumKinds ->
           \/ /\ tree.node = "Ident" /\ ConstantIs(tree.Name, x)
              /\ typed \/ x.t = Builtin(DefaultKind(tree.Name))
           \/ /\ tree.node = "CallExpr" /\ Len(tree.Args) = 1 /\ tree.Args[1].node = "Ident"
              /\ TypeDenotes(tree.Fun, x.t, o) /\ ConstantIs(tree.Args[1].Name, x)
      [] Kind(x) \in {"array", "slice"} ->
           /\ tree.node = "CompositeLit" /\ ~x.isnil /\ TypeDenotes(tree.Type, x.t, o)
           /\ Len(tree.Elts) = Len(x.elts)
           /\ \A i \in 1..Len(x.elts) : Denotes(tree.Elts[i], x.elts[i], TRUE, o)
      [] Kind(x) = "map" ->
           /\ tree.node = "CompositeLit" /\ ~x.isnil /\ TypeDenotes(tree.Type, x.t, o)
           /\ Len(tree.Elts) = Len(x.pairs)
           /\ \A i \in 1..Len(x.pairs) : \E j \in 1..Len(tree.Elts) :
                /\ tree.Elts[j].node = "KeyValueExpr"
                /\ Denotes(tree.Elts[j].Key, x.pairs[i].key, TRUE, o)
                /\ Denotes(tree.Elts[j].Value, x.pairs[i].val, TRUE, o)
      [] Kind(x) = "ptr" ->
           IF x.isnil
           THEN \/ typed /\ tree = NilIdent
                \/ /\ tree.node = "CallExpr" /\ tree.Fun.node = "ParenExpr"
                   /\ tree.Args = <<NilIdent>> /\ TypeDenotes(tree.Fun.X, x.t, o)
           ELSE \* the operand of & is a composite literal: a conversion is not addressable
                /\ tree.node = "UnaryExpr" /\ tree.Op = "&" /\ tree.X.node = "CompositeLit"
                /\ typed \/ x.t.name = NoName
                /\ Kind(x.elem) # "ref" /\ Denotes(tree.X, x.elem, FALSE, o)
      [] Kind(x) = "struct" ->
           /\ tree.node = "CompositeLit" /\ TypeDenotes(tree.Type, x.t, o)
           /\ \A j \in 1..Len(tree.Elts) :
                /\ tree.Elts[j].node = "KeyValueExpr"
                /\ \E i \in 1..Len(x.fields) : tree.Elts[j].Key = Ident(x.t.fields[i].name)
           /\ \A i \in 1..Len(x.fields) :
                LET js == {j \in 1..Len(tree.Elts) : tree.Elts[j].Key = Ident(x.t.fields[i].name)}
                IN  IF js = {} THEN IsZero(x.fields[i])
                    ELSE /\ Cardinality(js) = 1
                         /\ \A j \in js : Denotes(tree.Elts[j].Value, x.fields[i], TRUE, o)
      [] Kind(x) = "unsafeptr" ->
           /\ tree.node = "CallExpr" /\ TypeDenotes(tree.Fun, x.t, o)
           /\ tree.Args = <<CallExpr(Ident(KindName("uintptr")),
                                     <<BasicLit("INT", <<"0", "x">> \o HexDigits(x.addr))>>)>>
      [] OTHER -> FALSE

\* C1: with ExportedOnly=false and Unqualify=false at the root, the expression AST
\* returns without an error for a value evaluates by the rules of Go to that value:
\* the same types, also of what an interface-typed slot holds, and nil slices and
\* maps as nil
C1_RoundTrip ==
    Called /\ ~Effective.ExportedOnly /\ ~Effective.Unqualify /\ ret.err = NoError
        => Denotes(ret.res.AST, input, FALSE, Effective)

(***************************************************************************)
(* The shape of the emitted tree.                                          *)
(***************************************************************************)
RECURSIVE SubNodes(_)
\* the expression n and every expression below it
SubNodes(n) ==
    LET All(ns) == UNION {SubNodes(ns[i]) : i \in 1..Len(ns)} IN
    {n} \cup
    CASE n.node = "CallExpr"      -> SubNodes(n.Fun) \cup All(n.Args)
      [] n.node = "SelectorExpr"  -> SubNodes(n.X) \cup SubNodes(n.Sel)
      [] n.node = "CompositeLit"  -> SubNodes(n.Type) \cup All(n.Elts)
      [] n.node = "KeyValueExpr"  -> SubNodes(n.Key) \cup SubNodes(n.Value)
      [] n.node \in {"UnaryExpr", "ParenExpr", "StarExpr"} -> SubNodes(n.X)
      [] n.node = "ArrayType"     -> SubNodes(n.Len) \cup SubNodes(n.Elt)
      [] n.node = "MapType"       -> SubNodes(n.Key) \cup SubNodes(n.Value)
      [] n.node = "Field"         -> SubNodes(n.Type)
      [] n.node = "StructType"    -> All(n.Fields)
      [] n.node = "InterfaceType" -> All(n.Methods)
      [] n.node = "FuncType"      -> All(n.Params) \cup All(n.Results)
      [] OTHER                    -> {}

\* C11: the encoding of a self-referential structure (a node whose Next points to
\* the node itself, or to a second node that points back) terminates: the call
\* returns to its caller instead of overflowing the stack
C11_CycleTermination ==
    Called /\ input \in CyclicValues
        => /\ ret.err # StackOverflow
           /\ pc = "StringWithOptions" => out.is = "string"

C13_RootBoolAndString ==
    Called /\ input.t \in {Builtin("bool"), Builtin("string")} /\ ~Effective.Unqualify
           /\ ret.err = NoError
        => ret.res.AST.node = "CallExpr" /\ ret.res.AST.Fun = Ident(input.t.name)

\* C14: no emitted tree applies the address-of operator to an address-of expression
C14_NoDoubleAddressOf ==
    Called /\ ret.err = NoError
        => \A n \in SubNodes(ret.res.AST) :
              n.node = "UnaryExpr" => n.X.node # "UnaryExpr"

\* C15: no emitted tree applies the address-of operator to the identifier nil
C15_NoAddressOfNil ==
    Called /\ ret.err = NoError
        => \A n \in SubNodes(ret.res.AST) : n.node = "UnaryExpr" => n.X # NilIdent

\* C16: with ExportedOnly=true, a Result that AST returns with a nil error and
\* RequiresUnexported=true has a nil AST
C16_RequiresUnexportedHasNoAST ==
    Called /\ Effective.ExportedOnly /\ ret.err = NoError /\ ret.res.RequiresUnexported
        => ret.res.AST = NilExpr

\* C19: the target of a non-nil pointer is encoded with Unqualify=false, whatever
\* Unqualify is for the pointer: the operand of the address-of is what AST returns
\* for the target under the Options of the call with Unqualify set to false
C19_PointeeQualified ==
    Called /\ Kind(input) = "ptr" /\ ~input.isnil /\ ret.err = NoError
           /\ ret.res.AST # NilExpr
        => /\ ret.res.AST.node = "UnaryExpr"
           /\ ret.res.AST.X = AST(Elem(input), [Effective EXCEPT !.Unqualify = FALSE], 2).res.AST

\* C20: for an array or a slice, the elements are encoded in index order with
\* Unqualify forced true, the type expression is built with the Options of the call,
\* and RequiresUnexported is the OR of the type's flag and the elements' flags; the
\* first failure, of an element or else of the type, is what the call returns
C20_ArrayAndSlice ==
    Called /\ Kind(input) \in {"array", "slice"}
        => LET vv    == unexported(input)
               n     == Len(vv.elts)
               elem  == [i \in 1..n |-> AST(vv.elts[i], withUnqualify(Effective), 2)]
               T     == typeExpr(vv.t, Effective)
               bad   == {i \in 1..n : elem[i].err # NoError}
           IN  IF bad # {}
               THEN ret = Ret(EmptyResult, elem[CHOOSE i \in bad : \A j \in bad : i <= j].err)
               ELSE IF T.err # NoError THEN ret = Ret(EmptyResult, T.err)
               ELSE ret = Ret(Result(CompositeLit(T.res.AST, [i \in 1..n |-> elem[i].res.AST]),
                                     FALSE,
                                     T.res.RequiresUnexported
                                        \/ \E i \in 1..n : elem[i].res.RequiresUnexported),
                              NoError)

\* C20 happens: a slice of two int elements, 1 and 0, was encoded with
\* Unqualify=false into a literal whose elements are the bare 1 and 0, in that order
C20_Witness ==
    /\ pc = "AST" /\ Kind(input) = "slice" /\ ~Effective.Unqualify /\ ret.err = NoError
    /\ Len(input.elts) = 2
    /\ ret.res.AST.Elts = <<Ident(<<"1">>), Ident(<<"0">>)>>

\* the package paths the call gave to the resolver, in order
Consulted == ASTCalls(input, Effective, 1)

\* whether the resolver of the call returns an error for the path
ResolverFails(path) == packagePathToName(Effective, path).err # NoError

\* C18: when the resolver returns an error for a path that the call consults, that
\* call of the resolver is the last one the call makes (none after it, none for
\* the same path again), AST returns exactly that error with the empty Result, and
\* StringWithOptions returns the text of that error
C18_ResolverFailure ==
    Called /\ (\E i \in 1..Len(Consulted) : ResolverFails(Consulted[i]))
        => /\ \A i \in 1..Len(Consulted) : ResolverFails(Consulted[i]) <=> i = Len(Consulted)
           /\ ret = Ret(EmptyResult, packagePathToName(Effective, Consulted[Len(Consulted)]).err)
           /\ pc = "StringWithOptions" => out = ErrorText(ret.err)

\* C18 happens: StringWithOptions consulted the default resolver for one path with
\* success, then for a second path, for which it failed, and returned that error
C18_Witness ==
    /\ pc = "StringWithOptions" /\ Len(Consulted) = 2
    /\ ~ResolverFails(Consulted[1]) /\ ResolverFails(Consulted[2])
    /\ out = ErrorText(ResolverError(Consulted[2]))

\* C17: two calls of AST that run at the same time, also on the same *Options, do
\* not interfere: no call writes an Options object the other call reads or writes,
\* and each call returns what AST returns for its value and the Options its caller
\* passed
C17_NoInterference ==
    /\ \A p \in {1, 2} :
          calls[p].status = "done"
              => calls[p].ret = AST(calls[p].root,
                                    IF calls[p].opt = <<0, 0>> THEN NilOptions
                                    ELSE CallerOptions(calls[p].opt), 1)
    /\ \A p \in {1, 2} :
          calls[p].writes \cap (calls[3 - p].reads \cup calls[3 - p].writes) = {}

\* C17 happens: two calls on the same *Options, each of a slice or an array, ran at
\* the same time, made their copies of the Options and returned their literals
C17_Witness ==
    /\ \A p \in {1, 2} :
          /\ calls[p].status = "done" /\ calls[p].overlapped /\ calls[p].opt = <<0, 1>>
          /\ Kind(calls[p].root) \in {"array", "slice"} /\ calls[p].writes # {}
          /\ calls[p].ret.err = NoError /\ calls[p].ret.res.AST.node = "CompositeLit"
    /\ calls[1].root # calls[2].root

(***************************************************************************)
(* Maps.                                                                   *)
(***************************************************************************)
\* the entries of the map given to the call, in the order of the sorted keys
MapEntries == sortedKeys(unexported(input).pairs)

\* what AST returns for the key and for the value of entry i of the map
KeyOf(i) == AST(MapEntries[i].key, withUnqualify(Effective), 2)
ValOf(i) == AST(MapEntries[i].val, withUnqualify(Effective), 2)

\* whether the encoding of the key or of the value of entry i requires an
\* unexported name
PairRequires(i) == KeyOf(i).res.RequiresUnexported \/ ValOf(i).res.RequiresUnexported

\* the pairs of the entries in the set keep, in the order of the sorted keys
PairsOf(keep) ==
    LET ix == SelectSeq([i \in 1..Len(MapEntries) |-> i], LAMBDA i : i \in keep)
    IN  [j \in 1..Len(ix) |-> KeyValueExpr(KeyOf(ix[j]).res.AST, ValOf(ix[j]).res.AST)]

\* the pairs and RequiresUnexported of the literal of a map: with ExportedOnly=true
\* exactly the pairs whose key and value require no unexported name are emitted,
\* with ExportedOnly=false every pair is emitted and RequiresUnexported is the
\* OR of the flags of the map type, the keys and the values
MapPairs ==
    LET n == Len(MapEntries) IN
    /\ ret.res.AST.node = "CompositeLit"
    /\ IF Effective.ExportedOnly
       THEN ret.res.AST.Elts = PairsOf({i \in 1..n : ~PairRequires(i)})
       ELSE /\ ret.res.AST.Elts = PairsOf(1..n)
            /\ ~ret.res.OmittedUnexported
                 \/ \E i \in 1..n : KeyOf(i).res.OmittedUnexported \/ ValOf(i).res.OmittedUnexported
            /\ ret.res.RequiresUnexported
                 <=> \/ typeExpr(input.t, Effective).res.RequiresUnexported
                     \/ \E i \in 1..n : PairRequires(i)

\* C21 as claimed: for a map, with ExportedOnly=true a pair is dropped exactly when
\* its key's or its value's encoding has RequiresUnexported, and OmittedUnexported
\* is set exactly when a pair is dropped; with ExportedOnly=false no pair is
\* dropped and RequiresUnexported is the OR of the type's, keys' and values' flags
C21_OmittedIffPairDropped ==
    Called /\ Kind(input) = "map" /\ ret.err = NoError
        => /\ MapPairs
           /\ Effective.ExportedOnly
                 => (ret.res.OmittedUnexported <=> \E i \in 1..Len(MapEntries) : PairRequires(i))

\* C21, amended: the same, but with ExportedOnly=true OmittedUnexported is set
\* exactly when a pair is dropped or the encoding of an emitted key or value has
\* OmittedUnexported itself
C21_MapPairs ==
    Called /\ Kind(input) = "map" /\ ret.err = NoError
        => /\ MapPairs
           /\ Effective.ExportedOnly
                 => (ret.res.OmittedUnexported
                        <=> \E i \in 1..Len(MapEntries) :
                               \/ PairRequires(i)
                               \/ KeyOf(i).res.OmittedUnexported
                               \/ ValOf(i).res.OmittedUnexported)

\* C21 happens: with ExportedOnly=true, a map of two entries was encoded into a
\* literal of one pair, the other pair dropped for its value, OmittedUnexported set
C21_Witness ==
    /\ pc = "AST" /\ Kind(input) = "map" /\ Effective.ExportedOnly /\ ret.err = NoError
    /\ Len(MapEntries) = 2 /\ ~PairRequires(1) /\ PairRequires(2)
    /\ ~KeyOf(2).res.RequiresUnexported
    /\ Len(ret.res.AST.Elts) = 1 /\ ret.res.OmittedUnexported

\* the order of Go on the keys of kind bool, integer and string: false before
\* true, numeric order, byte-wise string order
KeyBefore(a, b) ==
    CASE Kind(a) = "bool"    -> ~a.b /\ b.b
      [] Kind(a) \in IntKinds -> a.n < b.n
      [] OTHER               -> StringLess(a.s, b.s, 1)

\* C22: for a map whose keys are of kind bool, integer, unsigned, uintptr or
\* string, the emitted pairs are the pairs of the entries taken in strictly
\* ascending order of their keys, whatever order MapKeys returned the keys in
C22_AscendingKeys ==
    Called /\ Kind(input) = "map" /\ input.t.key.kind \in IntKinds \cup {"bool", "string"}
           /\ ret.err = NoError
        => LET ps   == unexported(input).pairs
               n    == Len(ps)
               asc  == CHOOSE g \in Permutations(1..n) :
                          \A i, j \in 1..n : i < j => KeyBefore(ps[g[i]].key, ps[g[j]].key)
               k(i) == AST(ps[asc[i]].key, withUnqualify(Effective), 2).res
               x(i) == AST(ps[asc[i]].val, withUnqualify(Effective), 2).res
               kept == SelectSeq([i \in 1..n |-> i],
                                 LAMBDA i : ~Effective.ExportedOnly
                                            \/ ~(k(i).RequiresUnexported \/ x(i).RequiresUnexported))
           IN  /\ \E g \in Permutations(1..n) :
                     \A i, j \in 1..n : i < j => KeyBefore(ps[g[i]].key, ps[g[j]].key)
               /\ ret.res.AST.Elts
                     = [j \in 1..Len(kept) |-> KeyValueExpr(k(kept[j]).AST, x(kept[j]).AST)]

\* C22 happens: MapKeys returned the three string keys of a map in descending
\* order, and the literal has the three pairs in ascending order of the keys
C22_Witness ==
    /\ Called /\ Kind(input) = "map" /\ Len(input.pairs) = 3 /\ ret.err = NoError
    /\ input.t.key.kind = "string"
    /\ KeyBefore(input.pairs[3].key, input.pairs[2].key)
    /\ KeyBefore(input.pairs[2].key, input.pairs[1].key)
    /\ Len(ret.res.AST.Elts) = 3
    /\ ret.res.AST.Elts[1].Key = Ident(Quote(input.pairs[3].key.s))
    /\ ret.res.AST.Elts[3].Key = Ident(Quote(input.pairs[1].key.s))

(***************************************************************************)
(* Interfaces.                                                             *)
(***************************************************************************)
\* C23: for a value of kind interface, with ExportedOnly=true it is omitted (nil
\* AST, RequiresUnexported) exactly when its interface type has a name and the
\* name is not exported, so a value of an unnamed interface type is not omitted;
\* otherwise the held value is encoded: what AST returns for it is returned as it
\* is when Unqualify is true, and is the one element of a composite literal typed
\* with the interface's type expression when Unqualify is false
C23_InterfaceValues ==
    Called /\ Kind(input) = "interface"
        => LET vv == unexported(input) IN
           IF Effective.ExportedOnly /\ vv.t.name # NoName /\ ~IsExported(vv.t.name)
           THEN ret = Ret(Result(NilExpr, FALSE, TRUE), NoError)
           ELSE IF Effective.Unqualify THEN ret = AST(vv.held, Effective, 2)
           ELSE LET x == AST(vv.held, Effective, 2)
                    T == typeExpr(vv.t, Effective)
                IN  IF x.err # NoError THEN ret = Ret(EmptyResult, x.err)
                    ELSE IF T.err # NoError THEN ret = Ret(EmptyResult, T.err)
                    ELSE ret = Ret(Result(CompositeLit(T.res.AST, <<x.res.AST>>), FALSE,
                                          T.res.RequiresUnexported \/ x.res.RequiresUnexported),
                                   NoError)

(***************************************************************************)
(* Type expressions.                                                       *)
(***************************************************************************)
\* C24: for the type of the value given to the call, when it has a name, typeExpr
\* returns (unless the resolver fails) the selector pkg.Name with
\* RequiresUnexported = (Name is not exported) when the type's package path is
\* not empty, differs from PackagePath and resolves to a name other than
\* PackageName, and the bare identifier Name with RequiresUnexported=false
\* otherwise: an identifier or a selector, never a call or a structural expansion
C24_NamedTypes ==
    Called /\ input # Invalid /\ input.t.name # NoName
        => LET t == input.t
               T == typeExpr(t, Effective)
               r == packagePathToName(Effective, t.pkg)
           IN  T.err = NoError
               => IF t.pkg # "" /\ t.pkg # Effective.PackagePath /\ r.name # Effective.PackageName
                  THEN T.res = Result(SelectorExpr(Ident(r.name), Ident(t.name)), FALSE,
                                      ~IsExported(t.name))
                  ELSE T.res = Result(Ident(t.name), FALSE, FALSE)

\* C25: when typeExpr returns a nil error for the type of the value given to the
\* call, either the type tree is non-nil and has no nil sub-node, or the tree is
\* nil and the type is an anonymous struct type, ExportedOnly is true, a field
\* type of it requires an unexported name, and the Result is RequiresUnexported
\* alone
C25_TypeTreeComplete ==
    Called /\ input # Invalid
        => LET t == unexported(input).t
               T == typeExpr(t, Effective)
           IN  T.err = NoError
               => IF T.res.AST = NilExpr
                  THEN /\ t.kind = "struct" /\ t.name = NoName /\ Effective.ExportedOnly
                       /\ \E i \in 1..Len(t.fields) :
                             typeExpr(t.fields[i].type, Effective).res.RequiresUnexported
                       /\ T.res = Result(NilExpr, FALSE, TRUE)
                  ELSE ~HasNilNode(T.res.AST)

(***************************************************************************)
(* String literals.                                                        *)
(***************************************************************************)
\* the text of the literal in the expression AST returned for a basic value: the
\* expression itself, or the argument of the conversion
LiteralText ==
    IF ret.res.AST.node = "CallExpr" THEN ret.res.AST.Args[1].Name ELSE ret.res.AST.Name

\* C26: a string is emitted as a back-quoted raw literal of its characters exactly
\* when it is longer than 40 bytes, contains a line break and contains no back
\* quote, and as the escaped double-quoted literal otherwise; in both forms the
\* literal denotes, by the rules of Go, exactly the string
C26_StringLiterals ==
    Called /\ Kind(input) = "string" /\ ret.err = NoError /\ ret.res.AST # NilExpr
        => LET s   == unexported(input).s
               raw == Len(s) > 40 /\ Contains(s, "\n") /\ ~Contains(s, Backquote)
           IN  /\ LiteralText = IF raw THEN <<Backquote>> \o s \o <<Backquote>> ELSE Quote(s)
               /\ Unquote(LiteralText) = s

(***************************************************************************)
(* The Options of the caller.                                              *)
(***************************************************************************)
\* C27: AST never modifies the Options its caller passed: every field of the
\* callers' Options is at all times what it was before the calls; the Options a
\* nested call runs with are those of the call around it (with Unqualify set, for
\* an element), so no change made for one subtree reaches a sibling; and equal
\* elements of one array or slice are encoded into equal expressions
C27_OptionsNeverModified ==
    /\ \A a \in {<<0, 1>>, <<0, 2>>} : mem[a] = CallerOptions(a)
    /\ \A p \in {1, 2} :
          LET st == calls[p].stack IN
          /\ st # << >>
                => mem[st[1].opt] = IF calls[p].opt = <<0, 0>> THEN ZeroOptions
                                    ELSE CallerOptions(calls[p].opt)
          /\ \A k \in 2..Len(st) :
                mem[st[k].opt] = IF Kind(st[k - 1].v) = "ptr" THEN mem[st[k - 1].opt]
                                 ELSE withUnqualify(mem[st[k - 1].opt])
    /\ \A p \in {1, 2} :
          calls[p].status = "done" /\ Kind(calls[p].root) \in {"array", "slice"}
                /\ calls[p].ret.err = NoError
             => \A i, j \in 1..Len(calls[p].root.elts) :
                   calls[p].root.elts[i] = calls[p].root.elts[j]
                      => calls[p].ret.res.AST.Elts[i] = calls[p].ret.res.AST.Elts[j]

\* C27 happens: a call on the second Options of the callers (Unqualify=true) has
\* encoded a slice of two equal pointers, copying the Options for each element,
\* into a literal of two equal elements, and the Options are as they were
C27_Witness ==
    \E p \in {1, 2} :
       /\ calls[p].status = "done" /\ calls[p].opt = <<0, 2>> /\ calls[p].n = 2
       /\ Kind(calls[p].root) = "slice" /\ Len(calls[p].root.elts) = 2
       /\ Kind(calls[p].root.elts[1]) = "ptr"
       /\ calls[p].ret.res.AST.Elts = <<UnaryExpr("&", Ident(<<"1">>)), UnaryExpr("&", Ident(<<"1">>))>>
       /\ mem[<<0, 2>>] = CallerOptions(<<0, 2>>)

(***************************************************************************)
(* OmittedUnexported.                                                      *)
(***************************************************************************)
RECURSIVE SomeDropped(_, _)
\* whether, with ExportedOnly=true, the encoding of x under the Options o drops a
\* struct field or a map entry, in x or at any depth of what it encodes of x
SomeDropped(x, o) ==
    LET u == withUnqualify(o)
        requires(y) == AST(y, u, 1).res.RequiresUnexported
    IN
    CASE Kind(x) \in {"array", "slice"} -> \E i \in 1..Len(x.elts) : SomeDropped(x.elts[i], u)
      [] Kind(x) = "map" ->
           \E i \in 1..Len(x.pairs) :
              \/ requires(x.pairs[i].key) \/ requires(x.pairs[i].val)
              \/ SomeDropped(x.pairs[i].key, u) \/ SomeDropped(x.pairs[i].val, u)
      [] Kind(x) = "struct" ->
           \E i \in 1..Len(x.fields) :
              ~IsZero(x.fields[i]) /\ (requires(x.fields[i]) \/ SomeDropped(x.fields[i], u))
      [] Kind(x) = "ptr" ->
           /\ ~x.isnil /\ ~typeExpr(x.t, o).res.RequiresUnexported
           /\ SomeDropped(Elem(x), o)
      [] Kind(x) = "interface" ->
           ~(o.ExportedOnly /\ ~IsExported(x.t.name)) /\ SomeDropped(x.held, o)
      [] OTHER -> FALSE

\* C28: with ExportedOnly=true, when the call returns a nil error and a Result that
\* requires no unexported name, OmittedUnexported of the Result is true exactly
\* when a struct field or a map entry was dropped at some depth of the value (a
\* field skipped for holding the zero value is not a dropped field)
C28_OmittedUnexported ==
    Called /\ Effective.ExportedOnly /\ ret.err = NoError /\ ~ret.res.RequiresUnexported
        => (ret.res.OmittedUnexported <=> SomeDropped(unexported(input), Effective))

(***************************************************************************)
(* Complete trees.                                                         *)
(***************************************************************************)
\* C29: when AST returns a nil error and RequiresUnexported=false, the AST is not
\* nil and no expression in it is nil, whatever ExportedOnly is; and on the path of
\* StringWithOptions that formats the tree, the tree given to the formatter has
\* no nil expression
C29_NoMissingNode ==
    /\ Called /\ ret.err = NoError /\ ~ret.res.RequiresUnexported
          => ret.res.AST # NilExpr /\ ~HasNilNode(ret.res.AST)
    /\ pc = "StringWithOptions" /\ ret.err = NoError
            /\ ~(Effective.ExportedOnly /\ ret.res.RequiresUnexported)
          => out = Text(ret.res.AST) /\ ~HasNilNode(out.tree)

\* C29 happens: with ExportedOnly=true, StringWithOptions encoded a struct, left
\* out a field whose encoding had no AST, and formatted a tree without a nil node
C29_Witness ==
    /\ pc = "StringWithOptions" /\ Effective.ExportedOnly /\ Kind(input) = "struct"
    /\ \E i \in 1..Len(input.fields) :
          LET f == AST(input.fields[i], withUnqualify(Effective), 2) IN
          ~IsZero(input.fields[i]) /\ f.err = NoError /\ f.res.AST = NilExpr
    /\ ret.err = NoError /\ ~ret.res.RequiresUnexported /\ ret.res.OmittedUnexported
    /\ out = Text(ret.res.AST) /\ ~HasNilNode(out.tree)

(***************************************************************************)
(* Errors.                                                                 *)
(***************************************************************************)
\* C30: whenever AST or typeExpr returns an error, the Result it returns with it
\* is the empty Result: for the call of the caller, and for the nested calls on
\* every value the call encodes on the way and on the type of each
C30_ErrorWithEmptyResult ==
    Called
        => /\ ret.err # NoError => ret.res = EmptyResult
           /\ \A y \in Traversed(input, Effective) :
                 \A o \in {Effective, withUnqualify(Effective)} :
                    /\ AST(y, o, 2).err # NoError => AST(y, o, 2).res = EmptyResult
                    /\ typeExpr(unexported(y).t, o).err # NoError
                          => typeExpr(unexported(y).t, o).res = EmptyResult

\* C30 happens: the encoding of a field of a struct failed, and the call on the
\* struct returned that error with the empty Result
C30_Witness ==
    /\ pc = "AST" /\ Kind(input) = "struct" /\ Len(input.fields) > 1
    /\ ret.err.e \in {"ErrInvalidType", "packages.Load"}
    /\ \E i \in 2..Len(input.fields) :
          /\ ~IsZero(input.fields[i - 1])
          /\ AST(input.fields[i - 1], withUnqualify(Effective), 2).res.AST # NilExpr
          /\ ret.err = AST(input.fields[i], withUnqualify(Effective), 2).err
    /\ ret.res = EmptyResult

====
